---- MODULE Spec2Model ----
(***************************************************************************)
(* State-machine model of the submission ETL (app/etl.py), the persistent  *)
(* entities (app/models.py) and the review handlers (app/routes.py).       *)
(*                                                                         *)
(* Strings are sequences of one-character strings, so that the text        *)
(* functions of the program (lower, strip, split, substring tests, regex   *)
(* rewrites) are computed and not assumed.  Scores are kept in hundredths  *)
(* of a point (a Python float 93.33 is the integer 9333).                  *)
(***************************************************************************)
EXTENDS Integers, Sequences, FiniteSets, TLC

-----------------------------------------------------------------------------
(* Python string primitives used by the program *)

UpperSeq ==
  <<"A","B","C","D","E","F","G","H","I","J","K","L","M",
    "N","O","P","Q","R","S","T","U","V","W","X","Y","Z">>

LowerSeq ==
  <<"a","b","c","d","e","f","g","h","i","j","k","l","m",
    "n","o","p","q","r","s","t","u","v","w","x","y","z">>

DigitChars == {"0","1","2","3","4","5","6","7","8","9"}

SpaceChars == {" ", "\t", "\n"}

IndexOf(c, seq) ==
  IF \E i \in 1..Len(seq) : seq[i] = c
  THEN CHOOSE i \in 1..Len(seq) : seq[i] = c
  ELSE 0

lower_char(c) ==
  LET i == IndexOf(c, UpperSeq) IN IF i > 0 THEN LowerSeq[i] ELSE c

upper_char(c) ==
  LET i == IndexOf(c, LowerSeq) IN IF i > 0 THEN UpperSeq[i] ELSE c

isspace(c) == c \in SpaceChars

isdigit(c) == c \in DigitChars

\* \w of the re module: letters, digits and the underscore
isword(c) ==
  \/ IndexOf(c, UpperSeq) > 0
  \/ IndexOf(c, LowerSeq) > 0
  \/ c \in DigitChars
  \/ c = "_"

\* str.lower()
lower(s) == [i \in 1..Len(s) |-> lower_char(s[i])]

\* str.capitalize(): first character upper-cased, the rest lower-cased
capitalize(s) ==
  [i \in 1..Len(s) |-> IF i = 1 THEN upper_char(s[i]) ELSE lower_char(s[i])]

RECURSIVE lstrip(_)
lstrip(s) ==
  IF s # <<>> /\ isspace(Head(s)) THEN lstrip(Tail(s)) ELSE s

RECURSIVE rstrip(_)
rstrip(s) ==
  IF s # <<>> /\ isspace(s[Len(s)]) THEN rstrip(SubSeq(s, 1, Len(s) - 1)) ELSE s

\* str.strip()
strip(s) == rstrip(lstrip(s))

RECURSIVE split_acc(_, _, _)
split_acc(s, cur, out) ==
  IF s = <<>> THEN (IF cur = <<>> THEN out ELSE Append(out, cur))
  ELSE IF isspace(Head(s))
       THEN split_acc(Tail(s), <<>>, IF cur = <<>> THEN out ELSE Append(out, cur))
       ELSE split_acc(Tail(s), Append(cur, Head(s)), out)

\* str.split(): split on runs of whitespace, no empty words
split(s) == split_acc(s, <<>>, <<>>)

RECURSIVE split_on_acc(_, _, _, _)
split_on_acc(s, seps, cur, out) ==
  IF s = <<>> THEN Append(out, cur)
  ELSE IF Head(s) \in seps
       THEN split_on_acc(Tail(s), seps, <<>>, Append(out, cur))
       ELSE split_on_acc(Tail(s), seps, Append(cur, Head(s)), out)

\* str.split(sep) and re.split('[...]'): split at every separator, empty parts kept
split_on(s, seps) == split_on_acc(s, seps, <<>>, <<>>)

RECURSIVE join(_, _)
\* sep.join(parts)
join(sep, parts) ==
  IF parts = <<>> THEN <<>>
  ELSE IF Len(parts) = 1 THEN parts[1]
  ELSE parts[1] \o sep \o join(sep, Tail(parts))

\* sub in s
contains(s, sub) ==
  \E i \in 0..(Len(s) - Len(sub)) : SubSeq(s, i + 1, i + Len(sub)) = sub

\* sum(1 for c in s if c in chars)
RECURSIVE count_in(_, _)
count_in(s, chars) ==
  IF s = <<>> THEN 0
  ELSE (IF Head(s) \in chars THEN 1 ELSE 0) + count_in(Tail(s), chars)

RECURSIVE remove_chars(_, _)
\* re.sub('[...]', '', s)
remove_chars(s, chars) ==
  IF s = <<>> THEN <<>>
  ELSE IF Head(s) \in chars THEN remove_chars(Tail(s), chars)
  ELSE <<Head(s)>> \o remove_chars(Tail(s), chars)

RECURSIVE collapse_ws(_)
\* re.sub(r'\s+', ' ', s)
collapse_ws(s) ==
  IF s = <<>> THEN <<>>
  ELSE IF isspace(Head(s)) THEN <<" ">> \o collapse_ws(lstrip(s))
  ELSE <<Head(s)>> \o collapse_ws(Tail(s))

-----------------------------------------------------------------------------
(* sanitize_string and normalize_offering_text (app/etl.py) *)

\* index of the '>' closing a match of <[^>]+> that starts at s[1] = '<', or 0
tag_end(s) ==
  IF Len(s) >= 3 /\ s[2] # ">" /\ (\E j \in 3..Len(s) : s[j] = ">")
  THEN CHOOSE j \in 3..Len(s) :
         s[j] = ">" /\ \A k \in 3..(j - 1) : s[k] # ">"
  ELSE 0

RECURSIVE remove_tags(_)
\* re.sub(r'<[^>]+>', '', value)
remove_tags(s) ==
  IF s = <<>> THEN <<>>
  ELSE IF Head(s) = "<" /\ tag_end(s) > 0
       THEN remove_tags(SubSeq(s, tag_end(s) + 1, Len(s)))
       ELSE <<Head(s)>> \o remove_tags(Tail(s))

RECURSIVE html_escape(_)
\* html.escape(value), quote=True
html_escape(s) ==
  IF s = <<>> THEN <<>>
  ELSE (CASE Head(s) = "&"  -> <<"&","a","m","p",";">>
          [] Head(s) = "<"  -> <<"&","l","t",";">>
          [] Head(s) = ">"  -> <<"&","g","t",";">>
          [] Head(s) = "\"" -> <<"&","q","u","o","t",";">>
          [] Head(s) = "'"  -> <<"&","#","x","2","7",";">>
          [] OTHER          -> <<Head(s)>>) \o html_escape(Tail(s))

sanitize_string(value) ==
  IF value = <<>> THEN value
  ELSE html_escape(remove_tags(strip(value)))

\* \b at position i: between s[i-1] and s[i]
word_boundary(s, i) ==
  LET w(j) == j \in 1..Len(s) /\ isword(s[j])
  IN  w(i - 1) # w(i)

RECURSIVE skip_ws(_, _)
skip_ws(s, i) ==
  IF i <= Len(s) /\ isspace(s[i]) THEN skip_ws(s, i + 1) ELSE i

RECURSIVE match_from(_, _, _, _)
\* Match pat[k..] followed by \b at s[i..], re.IGNORECASE; the index after the
\* match, or 0.  Tokens: a literal character, "S+" (\s+), "S*" (\s*), "s?".
\* Every \s+ and \s* of the table is followed by a literal that is not a
\* space, so only the whole whitespace run can match.
match_from(pat, k, s, i) ==
  IF k > Len(pat) THEN (IF word_boundary(s, i) THEN i ELSE 0)
  ELSE IF pat[k] = "S+"
       THEN (IF i <= Len(s) /\ isspace(s[i])
             THEN match_from(pat, k + 1, s, skip_ws(s, i)) ELSE 0)
  ELSE IF pat[k] = "S*"
       THEN match_from(pat, k + 1, s, skip_ws(s, i))
  ELSE IF pat[k] = "s?"
       THEN LET taken == IF i <= Len(s) /\ lower_char(s[i]) = "s"
                         THEN match_from(pat, k + 1, s, i + 1) ELSE 0
            IN  IF taken > 0 THEN taken ELSE match_from(pat, k + 1, s, i)
  ELSE IF i <= Len(s) /\ lower_char(s[i]) = lower_char(pat[k])
       THEN match_from(pat, k + 1, s, i + 1)
       ELSE 0

RECURSIVE re_sub_from(_, _, _, _)
re_sub_from(pat, repl, s, i) ==
  IF i > Len(s) THEN <<>>
  ELSE LET e == IF word_boundary(s, i) THEN match_from(pat, 1, s, i) ELSE 0
       IN  IF e > 0 THEN repl \o re_sub_from(pat, repl, s, e)
           ELSE <<s[i]>> \o re_sub_from(pat, repl, s, i + 1)

\* re.sub(r'\b' + pat + r'\b', repl, s, flags=re.IGNORECASE)
re_sub(pat, repl, s) == re_sub_from(pat, repl, s, 1)

\* the table of normalize_offering_text, in its order
variant_mappings ==
  <<
    << <<"v","i","t","S+","c">>,
       <<"V","i","t","a","m","i","n"," ","C">> >>,
    << <<"v","i","t","S+","d">>,
       <<"V","i","t","a","m","i","n"," ","D">> >>,
    << <<"v","i","t","S+","b">>,
       <<"V","i","t","a","m","i","n"," ","B">> >>,
    << <<"v","i","t","S+","e">>,
       <<"V","i","t","a","m","i","n"," ","E">> >>,
    << <<"v","i","t","S+","a">>,
       <<"V","i","t","a","m","i","n"," ","A">> >>,
    << <<"v","i","t","S+","k">>,
       <<"V","i","t","a","m","i","n"," ","K">> >>,
    << <<"p","r","o","b","i","o","t","i","c","s?">>,
       <<"P","r","o","b","i","o","t","i","c","s">> >>,
    << <<"p","r","e","b","i","o","t","i","c","s?">>,
       <<"P","r","e","b","i","o","t","i","c","s">> >>,
    << <<"o","m","e","g","a","S*","3">>,
       <<"O","m","e","g","a","-","3">> >>,
    << <<"o","m","e","g","a","S*","6">>,
       <<"O","m","e","g","a","-","6">> >>,
    << <<"o","m","e","g","a","S*","9">>,
       <<"O","m","e","g","a","-","9">> >>,
    << <<"c","o","q","1","0">>,
       <<"C","o","Q","1","0">> >>,
    << <<"c","o","S*","q","S*","1","0">>,
       <<"C","o","Q","1","0">> >>,
    << <<"B",".","S*","a","d","o","l","e","s","c","e","n","t","i","s">>,
       <<"B","i","f","i","d","o","b","a","c","t","e","r","i","u","m"," ","a","d","o","l","e","s","c","e","n","t","i","s">> >>,
    << <<"B",".","S*","l","a","c","t","i","s">>,
       <<"B","i","f","i","d","o","b","a","c","t","e","r","i","u","m"," ","l","a","c","t","i","s">> >>,
    << <<"B",".","S*","b","i","f","i","d","u","m">>,
       <<"B","i","f","i","d","o","b","a","c","t","e","r","i","u","m"," ","b","i","f","i","d","u","m">> >>,
    << <<"L",".","S*","a","c","i","d","o","p","h","i","l","u","s">>,
       <<"L","a","c","t","o","b","a","c","i","l","l","u","s"," ","a","c","i","d","o","p","h","i","l","u","s">> >>,
    << <<"L",".","S*","r","h","a","m","n","o","s","u","s">>,
       <<"L","a","c","t","o","b","a","c","i","l","l","u","s"," ","r","h","a","m","n","o","s","u","s">> >>,
    << <<"L",".","S*","c","a","s","e","i">>,
       <<"L","a","c","t","o","b","a","c","i","l","l","u","s"," ","c","a","s","e","i">> >>,
    << <<"S",".","S*","b","o","u","l","a","r","d","i","i">>,
       <<"S","a","c","c","h","a","r","o","m","y","c","e","s"," ","b","o","u","l","a","r","d","i","i">> >>,
    << <<"S",".","S*","c","e","r","e","v","i","s","i","a","e">>,
       <<"S","a","c","c","h","a","r","o","m","y","c","e","s"," ","c","e","r","e","v","i","s","i","a","e">> >>,
    << <<"s","t","e","v","i","a">>,
       <<"S","t","e","v","i","a">> >>,
    << <<"m","o","n","k","S*","f","r","u","i","t">>,
       <<"M","o","n","k"," ","F","r","u","i","t">> >>,
    << <<"m","o","n","k","f","r","u","i","t">>,
       <<"M","o","n","k"," ","F","r","u","i","t">> >>,
    << <<"c","h","i","c","o","r","y","S*","r","o","o","t">>,
       <<"C","h","i","c","o","r","y"," ","R","o","o","t">> >>,
    << <<"i","n","u","l","i","n">>,
       <<"I","n","u","l","i","n">> >>,
    << <<"p","e","c","t","i","n">>,
       <<"P","e","c","t","i","n">> >>,
    << <<"g","u","a","r","S*","g","u","m">>,
       <<"G","u","a","r"," ","G","u","m">> >>,
    << <<"x","a","n","t","h","a","n","S*","g","u","m">>,
       <<"X","a","n","t","h","a","n"," ","G","u","m">> >>,
    << <<"c","a","r","r","a","g","e","e","n","a","n">>,
       <<"C","a","r","r","a","g","e","e","n","a","n">> >>,
    << <<"a","g","a","r">>,
       <<"A","g","a","r">> >>,
    << <<"g","e","l","a","t","i","n">>,
       <<"G","e","l","a","t","i","n">> >>,
    << <<"g","e","l","a","t","i","n","e">>,
       <<"G","e","l","a","t","i","n">> >>
  >>

RECURSIVE apply_variants(_, _)
\* for pattern, replacement in variant_mappings.items(): text = re.sub(...)
apply_variants(s, k) ==
  IF k > Len(variant_mappings) \/ s = <<>> THEN s
  ELSE apply_variants(re_sub(variant_mappings[k][1], variant_mappings[k][2], s), k + 1)

NoisePunctuation == {",", ";", "!", "?", "'", "\"", "[", "]", "{", "}"}

StopWords ==
  { <<"a","n","d">>, <<"o","r">>, <<"o","f">>, <<"t","h","e">>, <<"i","n">>,
    <<"o","n">>, <<"a","t">>, <<"t","o">>, <<"f","o","r">>,
    <<"w","i","t","h">>, <<"b","y">> }

RECURSIVE capitalize_parts(_)
\* [part.capitalize() for part in parts if part]
capitalize_parts(parts) ==
  IF parts = <<>> THEN <<>>
  ELSE IF Head(parts) = <<>> THEN capitalize_parts(Tail(parts))
  ELSE <<capitalize(Head(parts))>> \o capitalize_parts(Tail(parts))

RECURSIVE normalize_words(_, _)
\* the word loop of step 5; out is normalized_words so far
normalize_words(words, out) ==
  IF words = <<>> THEN out
  ELSE LET word == Head(words)
           w == IF lower(word) \in StopWords
                THEN (IF out = <<>> THEN capitalize(word) ELSE lower(word))
                ELSE IF contains(word, <<"-">>)
                THEN join(<<"-">>, capitalize_parts(split_on(word, {"-"})))
                ELSE IF contains(word, <<".">>) /\ Len(word) > 1
                THEN join(<<".">>, capitalize_parts(split_on(word, {"."})))
                ELSE capitalize(word)
       IN  normalize_words(Tail(words), Append(out, w))

normalize_offering_text(text) ==
  IF text = <<>> THEN text
  ELSE IF strip(text) = <<>> THEN strip(text)
  ELSE LET t2 == collapse_ws(strip(text))
           t3 == apply_variants(t2, 1)
           t4 == remove_chars(t3, NoisePunctuation)
           result == join(<<" ">>, normalize_words(split(t4), <<>>))
       IN  strip(collapse_ws(result))

-----------------------------------------------------------------------------
(* Penalty scorer (app/etl.py) and semantic guard (app/routes.py) *)

\* a score of n points; scores are integers in hundredths of a point
Pts(n) == n * 100

Abs(x) == IF x < 0 THEN -x ELSE x

Max2(a, b) == IF a >= b THEN a ELSE b

Min2(a, b) == IF a <= b THEN a ELSE b

LENGTH_PENALTY_MULTIPLIER == 30

WORD_COUNT_PENALTY_MULTIPLIER == 10

DIETARY_TERMS_PENALTY == 20

SPECIAL_CHARS_PENALTY == 15

NUMBERS_PENALTY == 15

ALGORITHM_DISAGREEMENT_PENALTY == 15

ALGORITHM_DISAGREEMENT_THRESHOLD == 20

dietary_terms ==
  << <<"g","l","u","t","e","n","-","f","r","e","e">>, <<"o","r","g","a","n","i","c">>,
     <<"n","a","t","u","r","a","l">>, <<"r","a","w">>,
     <<"e","x","t","r","a"," ","v","i","r","g","i","n">>,
     <<"w","h","o","l","e"," ","g","r","a","i","n">> >>

SpecialChars == {"!", "@", "#", "$", "%", "^", "&", "*", "(", ")"}

\* any(term in s for term in terms)
has_any(s, terms) == \E k \in 1..Len(terms) : contains(s, terms[k])

\* Penalty 2: min(word_diff * WORD_COUNT_PENALTY_MULTIPLIER, 25)
word_count_penalty(text_sanitized, match_name) ==
  Min2(Abs(Len(split(text_sanitized)) - Len(split(match_name)))
         * Pts(WORD_COUNT_PENALTY_MULTIPLIER), Pts(25))

\* the penalties without the final max(0.0, adjusted_score)
apply_match_penalties_unclamped(text_sanitized, match_name, raw_score) ==
  LET length_diff == Abs(Len(text_sanitized) - Len(match_name))
      max_length == Max2(Len(text_sanitized), Len(match_name))
      length_penalty == (length_diff * Pts(LENGTH_PENALTY_MULTIPLIER)) \div max_length
      word_penalty == word_count_penalty(text_sanitized, match_name)
      dietary_penalty ==
        IF has_any(lower(text_sanitized), dietary_terms)
           # has_any(lower(match_name), dietary_terms)
        THEN Pts(DIETARY_TERMS_PENALTY) ELSE 0
      special_penalty ==
        IF count_in(text_sanitized, SpecialChars) # count_in(match_name, SpecialChars)
        THEN Pts(SPECIAL_CHARS_PENALTY) ELSE 0
      numbers_penalty ==
        IF (\E i \in 1..Len(text_sanitized) : isdigit(text_sanitized[i]))
           # (\E i \in 1..Len(match_name) : isdigit(match_name[i]))
        THEN Pts(NUMBERS_PENALTY) ELSE 0
  IN  raw_score - length_penalty - word_penalty - dietary_penalty
        - special_penalty - numbers_penalty

\* The length penalty (diff / max) * 30.0 is rounded down to a hundredth.
apply_match_penalties(text_sanitized, match_name, raw_score) ==
  LET length_diff == Abs(Len(text_sanitized) - Len(match_name))
      max_length == Max2(Len(text_sanitized), Len(match_name))
      length_penalty == (length_diff * Pts(LENGTH_PENALTY_MULTIPLIER)) \div max_length
      word_penalty == word_count_penalty(text_sanitized, match_name)
      dietary_penalty ==
        IF has_any(lower(text_sanitized), dietary_terms)
           # has_any(lower(match_name), dietary_terms)
        THEN Pts(DIETARY_TERMS_PENALTY) ELSE 0
      special_penalty ==
        IF count_in(text_sanitized, SpecialChars) # count_in(match_name, SpecialChars)
        THEN Pts(SPECIAL_CHARS_PENALTY) ELSE 0
      numbers_penalty ==
        IF (\E i \in 1..Len(text_sanitized) : isdigit(text_sanitized[i]))
           # (\E i \in 1..Len(match_name) : isdigit(match_name[i]))
        THEN Pts(NUMBERS_PENALTY) ELSE 0
  IN  Max2(0, raw_score - length_penalty - word_penalty - dietary_penalty
                - special_penalty - numbers_penalty)

category_keywords ==
  <<
    << "vitamins",
       <<
         <<"v","i","t","a","m","i","n">>, <<"v","i","t","a","m","i","n","s">>, <<"v","i","t">>,
         <<"a","s","c","o","r","b","i","c">>, <<"t","h","i","a","m","i","n","e">>,
         <<"r","i","b","o","f","l","a","v","i","n">>, <<"n","i","a","c","i","n">>, <<"b","1","2">>,
         <<"b","6">>, <<"f","o","l","a","t","e">>, <<"b","i","o","t","i","n">>,
         <<"p","a","n","t","o","t","h","e","n","i","c">>
       >> >>,
    << "amino_acids",
       <<
         <<"a","m","i","n","o">>, <<"a","c","i","d">>, <<"p","r","o","t","e","i","n">>,
         <<"p","e","p","t","i","d","e">>, <<"g","l","u","t","a","m","i","n","e">>,
         <<"a","r","g","i","n","i","n","e">>, <<"l","y","s","i","n","e">>,
         <<"m","e","t","h","i","o","n","i","n","e">>, <<"t","r","y","p","t","o","p","h","a","n">>,
         <<"t","y","r","o","s","i","n","e">>
       >> >>,
    << "minerals",
       <<
         <<"c","a","l","c","i","u","m">>, <<"i","r","o","n">>, <<"z","i","n","c">>,
         <<"m","a","g","n","e","s","i","u","m">>, <<"s","e","l","e","n","i","u","m">>,
         <<"c","o","p","p","e","r">>, <<"m","a","n","g","a","n","e","s","e">>,
         <<"c","h","r","o","m","i","u","m">>, <<"i","o","d","i","n","e">>,
         <<"p","h","o","s","p","h","o","r","u","s">>
       >> >>,
    << "omega",
       <<
         <<"o","m","e","g","a">>, <<"d","h","a">>, <<"e","p","a">>, <<"f","a","t","t","y">>,
         <<"a","c","i","d">>, <<"f","i","s","h">>, <<"o","i","l">>, <<"f","l","a","x">>,
         <<"l","i","n","s","e","e","d">>
       >> >>,
    << "probiotics",
       <<
         <<"p","r","o","b","i","o","t","i","c">>, <<"p","r","o","b","i","o","t","i","c","s">>,
         <<"l","a","c","t","o","b","a","c","i","l","l","u","s">>,
         <<"b","i","f","i","d","o","b","a","c","t","e","r","i","u","m">>,
         <<"a","c","i","d","o","p","h","i","l","u","s">>, <<"b","a","c","t","e","r","i","a">>,
         <<"c","u","l","t","u","r","e">>
       >> >>,
    << "prebiotics",
       <<
         <<"p","r","e","b","i","o","t","i","c">>, <<"p","r","e","b","i","o","t","i","c","s">>,
         <<"f","i","b","e","r">>, <<"i","n","u","l","i","n">>,
         <<"f","r","u","c","t","o","o","l","i","g","o","s","a","c","c","h","a","r","i","d","e">>,
         <<"g","a","l","a","c","t","o","o","l","i","g","o","s","a","c","c","h","a","r","i","d","e">>
       >> >>,
    << "certifications",
       <<
         <<"o","r","g","a","n","i","c">>, <<"c","e","r","t","i","f","i","e","d">>,
         <<"u","s","d","a">>, <<"c","a","n","a","d","a">>, <<"e","u","r","o","p","e","a","n">>,
         <<"b","i","o">>, <<"e","c","o">>, <<"s","u","s","t","a","i","n","a","b","l","e">>,
         <<"f","a","i","r"," ","t","r","a","d","e">>
       >> >>,
    << "additives",
       <<
         <<"a","d","d","i","t","i","v","e">>, <<"a","d","d","i","t","i","v","e","s">>,
         <<"p","r","e","s","e","r","v","a","t","i","v","e">>,
         <<"s","t","a","b","i","l","i","z","e","r">>, <<"e","m","u","l","s","i","f","i","e","r">>,
         <<"t","h","i","c","k","e","n","e","r">>, <<"c","o","l","o","r","a","n","t">>
       >> >>,
    << "adhesives",
       <<
         <<"a","d","h","e","s","i","v","e">>, <<"a","d","h","e","s","i","v","e","s">>,
         <<"g","l","u","e">>, <<"b","o","n","d","i","n","g">>, <<"s","e","a","l","a","n","t">>,
         <<"c","e","m","e","n","t">>, <<"p","a","s","t","e">>
       >> >>
  >>

problematic_patterns ==
  <<
    << <<"v","i","t","a","m","i","n">>,
       <<"a","m","i","n","o">> >>,
    << <<"v","i","t","a","m","i","n">>,
       <<"p","r","o","t","e","i","n">> >>,
    << <<"v","i","t","a","m","i","n">>,
       <<"p","e","p","t","i","d","e">> >>,
    << <<"a","d","d","i","t","i","v","e">>,
       <<"a","d","h","e","s","i","v","e">> >>,
    << <<"a","d","d","i","t","i","v","e">>,
       <<"g","l","u","e">> >>,
    << <<"a","d","d","i","t","i","v","e">>,
       <<"b","o","n","d","i","n","g">> >>,
    << <<"p","r","o","b","i","o","t","i","c">>,
       <<"p","r","e","b","i","o","t","i","c">> >>,
    << <<"b","a","c","t","e","r","i","a">>,
       <<"f","i","b","e","r">> >>,
    << <<"c","u","l","t","u","r","e">>,
       <<"i","n","u","l","i","n">> >>,
    << <<"c","a","l","c","i","u","m">>,
       <<"v","i","t","a","m","i","n">> >>,
    << <<"i","r","o","n">>,
       <<"v","i","t","a","m","i","n">> >>,
    << <<"z","i","n","c">>,
       <<"v","i","t","a","m","i","n">> >>
  >>


omega_keyword == <<"o","m","e","g","a">>

categories_only_match(original_name, suggested_name, item_type) ==
  IF original_name = <<>> \/ suggested_name = <<>> THEN FALSE
  ELSE \A k \in 1..Len(category_keywords) :
         \/ has_any(strip(lower(original_name)), category_keywords[k][2])
            = has_any(strip(lower(suggested_name)), category_keywords[k][2])
         \/ /\ category_keywords[k][1] = "omega"
            /\ \/ contains(strip(lower(original_name)), omega_keyword)
               \/ contains(strip(lower(suggested_name)), omega_keyword)

is_semantically_valid_match(original_name, suggested_name, item_type) ==
  IF original_name = <<>> \/ suggested_name = <<>> THEN FALSE
  ELSE
    LET original_lower == strip(lower(original_name))
        suggested_lower == strip(lower(suggested_name))
        category_mismatch ==
          \E k \in 1..Len(category_keywords) :
            /\ has_any(original_lower, category_keywords[k][2])
               # has_any(suggested_lower, category_keywords[k][2])
            /\ ~ ( /\ category_keywords[k][1] = "omega"
                   /\ \/ contains(original_lower, omega_keyword)
                      \/ contains(suggested_lower, omega_keyword) )
        problematic ==
          \E k \in 1..Len(problematic_patterns) :
            \/ /\ contains(original_lower, problematic_patterns[k][1])
               /\ contains(suggested_lower, problematic_patterns[k][2])
            \/ /\ contains(original_lower, problematic_patterns[k][2])
               /\ contains(suggested_lower, problematic_patterns[k][1])
        \* length_ratio = min / max < 0.5
        length_mismatch ==
          2 * Min2(Len(original_lower), Len(suggested_lower))
            < Max2(Len(original_lower), Len(suggested_lower))
    IN  ~category_mismatch /\ ~problematic /\ ~length_mismatch

-----------------------------------------------------------------------------
(* Input validation helpers of the row loop (app/etl.py) *)

InvalidMarkers ==
  { <<>>, <<"n","u","l","l">>, <<"n","o","n","e">>, <<"n","/","a">>,
    <<"n","a">>, <<"n","a","n">> }

\* None and '' are both the empty sequence
is_empty_or_invalid(value) == lower(strip(value)) \in InvalidMarkers

is_valid(v) == ~is_empty_or_invalid(v)

\* TRUE iff the name is accepted
validate_business_name(name) ==
  /\ name # <<>>
  /\ Len(strip(name)) >= 2
  /\ Len(strip(name)) <= 200
  /\ ~ \E i \in 1..Len(name) : name[i] \in {"<", ">", "\"", "'"}

EmailLocalChars == {".", "_", "%", "+", "-"}

EmailDomainChars == {".", "-"}

isalpha(c) == IndexOf(c, UpperSeq) > 0 \/ IndexOf(c, LowerSeq) > 0

isalnum(c) == isalpha(c) \/ isdigit(c)

\* re.match(r'^[a-zA-Z0-9._%+-]+@[a-zA-Z0-9.-]+\.[a-zA-Z]{2,}$', email);
\* TRUE iff the email is accepted (an empty email is optional)
validate_email(email) ==
  \/ email = <<>>
  \/ \E a \in 2..Len(email) : \E d \in (a + 2)..(Len(email) - 2) :
       /\ email[a] = "@"
       /\ email[d] = "."
       /\ \A i \in 1..(a - 1) : isalnum(email[i]) \/ email[i] \in EmailLocalChars
       /\ \A i \in (a + 1)..(d - 1) : isalnum(email[i]) \/ email[i] \in EmailDomainChars
       /\ \A i \in (d + 1)..Len(email) : isalpha(email[i])

RECURSIVE valid_fragments(_)
\* the fragments of a cell that the loop of handle() does not skip as blank:
\* text = raw.strip() for raw in fragments, kept when is_valid(text)
valid_fragments(fragments) ==
  IF fragments = <<>> THEN <<>>
  ELSE (IF is_valid(strip(Head(fragments))) THEN <<strip(Head(fragments))>> ELSE <<>>)
       \o valid_fragments(Tail(fragments))

\* fragments = re.split(r'[;,]', str(cell)), none when the cell is not valid
cell_fragments(cell) ==
  IF ~is_valid(cell) THEN <<>>
  ELSE valid_fragments(split_on(cell, {";", ","}))

-----------------------------------------------------------------------------
(* Data: the canonical pool served by Dgraph, the uploaded files *)

\* Python None in a string column
NONE == "None"

Kinds == <<"product", "ingredient", "certification", "allergen">>

CanonicalData ==
  [ product |->
      << [title |-> <<"G","r","e","e","n"," ","T","e","a">>, id |-> "P1"],
         [title |-> <<"G","r","e","e","n"," ","T","e","a"," ","E","x","t","r","a","c","t">>,
          id |-> "P2"] >>,
    ingredient |->
      << [title |-> <<"A","m","i","n","o"," ","B","6">>, id |-> "I1"] >>,
    certification |-> << >>,
    allergen |->
      << [title |-> <<"P","e","a","n","u","t","s">>, id |-> "A1"] >> ]

\* a pool whose titles are written in other forms than normalize_offering_text gives
ExactData ==
  [ product |->
      << [title |-> <<"G","r","e","e","n"," ","T","e","a">>, id |-> "P1"],
         [title |-> <<"P","r","o","b","i","o","t","i","c">>, id |-> "P3"],
         [title |-> <<"S","a","l","t"," ","&"," ","K","e","l","p">>, id |-> "P4"] >>,
    ingredient |->
      << [title |-> <<"A","m","i","n","o"," ","B","6">>, id |-> "I1"] >>,
    certification |-> << >>,
    allergen |-> << >> ]

\* data = {}: Dgraph not configured, or the fetch raised
NoData ==
  [ product |-> << >>, ingredient |-> << >>, certification |-> << >>, allergen |-> << >> ]

FileNames == {"a.csv", "b.csv"}

\* an upload that names the same business on two rows
DuplicateFileNames == {"c.csv"}

\* an upload of two businesses, the one synchronized
SyncFileNames == {"d.csv"}

\* an upload whose items are the canonical titles of ExactData in lower case
ExactFileNames == {"e.csv"}

\* an upload whose rows fail the checks of the row loop one after the other
ValidationFileNames == {"v.csv"}

\* the titles of a pool in lower case, as the cell of an upload lists them
lowered_titles(entries) == join(<<";">>, [k \in DOMAIN entries |-> lower(entries[k].title)])

FileRows(filename) ==
  IF filename = "a.csv"
  THEN << [ businessName |-> <<"A","c","m","e">>,
            country1 |-> <<"C","A">>,
            contactEmail |-> <<"a","@","b",".","c","o">>,
            products |-> <<"g","r","e","e","n"," ","t","e","a",";"," ","G","r","e","e","n",
                           " ","T","e","a","s",","," ","g","r","e","e","n"," ","t","e","a","s">>,
            ingredients |-> <<"V","i","t","a","m","i","n"," ","B","6">>,
            certifications |-> << >>,
            allergens |-> << >> ],
          [ businessName |-> <<"Z","e","d">>,
            country1 |-> <<"n","/","a">>,
            contactEmail |-> << >>,
            products |-> <<"t","e","a">>,
            ingredients |-> << >>,
            certifications |-> << >>,
            allergens |-> << >> ] >>
  ELSE IF filename = "c.csv"
  THEN << [ businessName |-> <<"A","c","m","e">>,
            country1 |-> <<"C","A">>,
            contactEmail |-> << >>,
            products |-> <<"g","r","e","e","n"," ","t","e","a">>,
            ingredients |-> << >>,
            certifications |-> << >>,
            allergens |-> << >> ],
          [ businessName |-> <<"A","c","m","e">>,
            country1 |-> <<"U","S">>,
            contactEmail |-> << >>,
            products |-> <<"t","e","a">>,
            ingredients |-> << >>,
            certifications |-> << >>,
            allergens |-> << >> ],
          [ businessName |-> <<"B","o","l","t">>,
            country1 |-> <<"U","S">>,
            contactEmail |-> << >>,
            products |-> << >>,
            ingredients |-> << >>,
            certifications |-> << >>,
            allergens |-> <<"p","e","a","n","u","t","s">> ] >>
  ELSE IF filename = "d.csv"
  THEN << [ businessName |-> <<"A","c","m","e">>,
            country1 |-> <<"C","A">>,
            contactEmail |-> << >>,
            products |-> <<"G","r","e","e","n"," ","T","e","a","s">>,
            ingredients |-> << >>,
            certifications |-> << >>,
            allergens |-> << >> ],
          [ businessName |-> <<"B","o","l","t">>,
            country1 |-> <<"U","S">>,
            contactEmail |-> << >>,
            products |-> << >>,
            ingredients |-> <<"V","i","t","a","m","i","n"," ","B","6">>,
            certifications |-> << >>,
            allergens |-> << >> ] >>
  ELSE IF filename = "e.csv"
  THEN << [ businessName |-> <<"A","c","m","e">>,
            country1 |-> <<"C","A">>,
            contactEmail |-> << >>,
            products |-> lowered_titles(ExactData.product),
            ingredients |-> lowered_titles(ExactData.ingredient),
            certifications |-> << >>,
            allergens |-> << >> ] >>
  ELSE IF filename = "v.csv"
  THEN << [ businessName |-> <<"Q">>,
            country1 |-> <<"C","A">>,
            contactEmail |-> <<>>,
            products |-> <<"g","r","e","e","n"," ","t","e","a">>,
            ingredients |-> << >>,
            certifications |-> << >>,
            allergens |-> << >> ],
          [ businessName |-> <<"A","c","m","e">>,
            country1 |-> <<"C","A">>,
            contactEmail |-> <<"a","@","b">>,
            products |-> <<"g","r","e","e","n"," ","t","e","a","s">>,
            ingredients |-> << >>,
            certifications |-> << >>,
            allergens |-> << >> ],
          [ businessName |-> <<>>,
            country1 |-> <<"C","A">>,
            contactEmail |-> <<>>,
            products |-> <<"t","e","a">>,
            ingredients |-> << >>,
            certifications |-> << >>,
            allergens |-> << >> ],
          [ businessName |-> <<"B","o","l","t">>,
            country1 |-> <<"U","S">>,
            contactEmail |-> <<"b","@","c",".","i","o">>,
            products |-> <<"g","r","e","e","n"," ","t","e","a","s">>,
            ingredients |-> << >>,
            certifications |-> << >>,
            allergens |-> << >> ] >>
  ELSE << [ businessName |-> <<"B","o","l","t">>,
            country1 |-> <<"U","S">>,
            contactEmail |-> << >>,
            products |-> << >>,
            ingredients |-> << >>,
            certifications |-> << >>,
            allergens |-> <<"p","e","a","n","u","t","s">> ] >>

\* scores rapidfuzz may return for a pair of names, in points
RawScores == {0, 95, 100}

AuxScores == {60, 100}

\* thresholds of app/etl.py as shipped, in points
AUTO_RESOLVE_THRESHOLD == 97

AUTO_REJECT_THRESHOLD == 50

\* the values os.getenv hands to the module: the defaults, and AUTO_REJECT_THRESHOLD=0
ThresholdConfigs ==
  { [auto_resolve |-> Pts(AUTO_RESOLVE_THRESHOLD), auto_reject |-> Pts(r)] :
      r \in {AUTO_REJECT_THRESHOLD, 0} }

\* Python None in a Float column
NoScore == 0 - 1

-----------------------------------------------------------------------------
(* The canonical maps built before the row loop *)

\* prod_names / ing_names / cert_names / allergen_names (titles are distinct in the data)
pool_names(data, kind) == [k \in 1..Len(data[kind]) |-> data[kind][k].title]

\* ext_map.get(name): the id of the last entry carrying the title, None without one
ext_map_get(data, kind, name) ==
  LET hits == {k \in 1..Len(data[kind]) : data[kind][k].title = name}
  IN  IF hits = {} THEN NONE
      ELSE data[kind][CHOOSE k \in hits : \A j \in hits : j <= k].id

\* lower_map.get(key)
lower_map_get(data, kind, key) ==
  LET hits == {k \in 1..Len(data[kind]) : lower(data[kind][k].title) = key}
  IN  IF hits = {} THEN NONE
      ELSE data[kind][CHOOSE k \in hits : \A j \in hits : j <= k].id

RECURSIVE sort_desc(_, _)
\* the indices idxs ordered by descending raw score, ties in pool order
sort_desc(idxs, raw) ==
  IF idxs = {} THEN <<>>
  ELSE LET k == CHOOSE k \in idxs :
                  \A j \in idxs : raw[k] > raw[j] \/ (raw[k] = raw[j] /\ k <= j)
       IN  <<k>> \o sort_desc(idxs \ {k}, raw)

\* process.extract(text, pool, limit=limit) given the score raw[k] of each pool entry
extract(pool, raw, limit) ==
  LET order == sort_desc(DOMAIN pool, raw)
  IN  [i \in 1..Min2(limit, Len(order)) |->
         [name |-> pool[order[i]], score |-> raw[order[i]]]]

\* penalized_matches: the loop over all_matches; ratio and partial are the
\* cross-validation scores of the best raw match
penalized_matches(text_sanitized, all_matches, ratio_score, partial_score) ==
  [i \in DOMAIN all_matches |->
     LET m == all_matches[i]
         base == apply_match_penalties(text_sanitized, m.name, m.score)
         score_variance == Max2(Abs(m.score - ratio_score), Abs(m.score - partial_score))
         adjusted_score ==
           IF m.name = all_matches[1].name
                /\ score_variance > Pts(ALGORITHM_DISAGREEMENT_THRESHOLD)
           THEN base - Pts(ALGORITHM_DISAGREEMENT_PENALTY)
           ELSE base
     IN  [name |-> m.name, score |-> Max2(0, adjusted_score)]]

\* index of best_match in penalized_matches: the first entry with the highest
\* adjusted score above 0.0; 0 when best_match stays None
best_match(penalized) ==
  LET cands == {i \in DOMAIN penalized : penalized[i].score > 0}
  IN  IF cands = {} THEN 0
      ELSE CHOOSE i \in cands :
             \A j \in cands : penalized[i].score > penalized[j].score
                              \/ (penalized[i].score = penalized[j].score /\ i <= j)

\* a cascade that compares final_score with auto_resolve_threshold the other way round
classify_reversed(final_score, th) ==
  IF final_score <= th.auto_resolve THEN "AutoResolved"
  ELSE IF final_score >= th.auto_reject THEN "SuggestedForReview"
  ELSE "AutoRejected"

\* the branch of the threshold cascade taken for final_score
classify(final_score, th) ==
  IF final_score >= th.auto_resolve THEN "AutoResolved"
  ELSE IF final_score >= th.auto_reject THEN "SuggestedForReview"
  ELSE "AutoRejected"

RECURSIVE build_alts(_, _, _, _, _, _)
\* alts of a suggested match: entries of penalized_matches from position i on other
\* than name0 with a score of at least auto_reject_threshold, at most 3
build_alts(penalized, i, name0, th, data, kind) ==
  IF i > Len(penalized) THEN <<>>
  ELSE LET a == penalized[i]
           rest == build_alts(penalized, i + 1, name0, th, data, kind)
       IN  IF a.name # name0 /\ a.score >= th.auto_reject
           THEN <<[name |-> a.name, score |-> a.score,
                   ext_id |-> ext_map_get(data, kind, a.name)]>> \o rest
           ELSE rest

first_n(s, n) == [i \in 1..Min2(n, Len(s)) |-> s[i]]

-----------------------------------------------------------------------------
(* State *)

VARIABLES
  submissions,  \* committed rows of member_submissions
  members,      \* committed rows of members
  items,        \* committed rows of new_items
  reviews,      \* committed rows of match_reviews
  run,          \* per invocation of process_submission_file: position, locals, open transaction
  thresholds,   \* AUTO_RESOLVE_THRESHOLD / AUTO_REJECT_THRESHOLD as read at import
  response      \* what the last finished request returned or raised

vars == <<submissions, members, items, reviews, run, thresholds, response>>

\* request workers that may be inside process_submission_file
Procs == {1, 2}

NoResponse == [kind |-> "none"]

Return(count, errors, valid) ==
  [kind |-> "return", count |-> count, validation_errors |-> errors,
   valid_row_indices |-> valid]

Raise(exc) == [kind |-> "raise", error |-> exc]

NoLast == [branch |-> NONE, final_score |-> NoScore, item_id |-> 0]

IdleRun ==
  [ pc |-> "idle", filename |-> NONE, sub_id |-> 0, data |-> NoData, row |-> 0,
    member_id |-> 0, frags |-> <<>>, cur_kind |-> NONE, processed_items |-> {},
    counter |-> 0, validation_errors |-> <<>>, valid_row_indices |-> <<>>,
    tx_members |-> {}, tx_items |-> {}, tx_reviews |-> {},
    failed |-> FALSE,   \* the session's transaction was rolled back by a failed flush
    last |-> NoLast ]

SetMax(S) == CHOOSE m \in S : \A x \in S : x <= m

\* the next value of a table's id sequence
NextId(used) == 1 + SetMax(used \cup {0})

SubIds == {s.id : s \in submissions} \cup {run[q].sub_id : q \in Procs}

MemberIds == {m.id : m \in members} \cup UNION {{m.id : m \in run[q].tx_members} : q \in Procs}

ItemIds == {i.id : i \in items} \cup UNION {{i.id : i \in run[q].tx_items} : q \in Procs}

ReviewIds == {r.id : r \in reviews} \cup UNION {{r.id : r \in run[q].tx_reviews} : q \in Procs}

Init ==
  /\ submissions = {}
  /\ members = {}
  /\ items = {}
  /\ reviews = {}
  /\ run = [p \in Procs |-> IdleRun]
  /\ thresholds \in ThresholdConfigs
  /\ response = NoResponse

-----------------------------------------------------------------------------
(* process_submission_file *)

\* the call without the idempotency check
process_unchecked(p, filename) ==
  /\ run[p].pc = "idle"
  /\ run' = [run EXCEPT ![p] = [IdleRun EXCEPT !.pc = "insert", !.filename = filename]]
  /\ UNCHANGED <<submissions, members, items, reviews, thresholds, response>>

\* with db.session.begin(): the idempotency check
process_submission_file(p, filename) ==
  /\ run[p].pc = "idle"
  /\ IF \E s \in submissions : s.name = filename
     THEN /\ run' = [run EXCEPT ![p] = IdleRun]
          /\ response' = Return(0, <<>>, <<>>)
     ELSE /\ run' = [run EXCEPT ![p] = [IdleRun EXCEPT !.pc = "insert", !.filename = filename]]
          /\ UNCHANGED response
  /\ UNCHANGED <<submissions, members, items, reviews, thresholds>>

\* what the canonical fetch may return while the file is processed
fetch_canonical_data(filename) ==
  IF filename \in ExactFileNames THEN {ExactData} ELSE {CanonicalData, NoData}

\* db.session.add(sub); db.session.flush(), then the canonical fetch of
\* _process_rows_generator.  The INSERT waits while another open transaction holds
\* an uncommitted row of the same name, and fails on a committed one.
create_submission(p) ==
  /\ run[p].pc = "insert"
  /\ ~ \E q \in Procs \ {p} :
         /\ run[q].pc \in {"rows", "items"} /\ ~run[q].failed
         /\ run[q].filename = run[p].filename
  /\ IF \E s \in submissions : s.name = run[p].filename
     THEN /\ run' = [run EXCEPT ![p] = IdleRun]
          /\ response' = Raise("IntegrityError")
     ELSE /\ \E data \in fetch_canonical_data(run[p].filename) :
               run' = [run EXCEPT ![p].pc = "rows", ![p].sub_id = NextId(SubIds),
                                  ![p].data = data, ![p].row = 1]
          /\ UNCHANGED response
  /\ UNCHANGED <<submissions, members, items, reviews, thresholds>>

\* the work list of the four handle() calls of a row: each fragment that is not
\* blank, with text_sanitized = sanitize_string(normalize_offering_text(text))
row_fragments(row) ==
  LET of(kind, cell) ==
        [k \in DOMAIN cell_fragments(cell) |->
           [kind |-> kind, text |-> cell_fragments(cell)[k],
            text_sanitized |->
              sanitize_string(normalize_offering_text(cell_fragments(cell)[k]))]]
  IN  of("product", row.products) \o of("ingredient", row.ingredients)
      \o of("certification", row.certifications) \o of("allergen", row.allergens)

\* the work lists of the rows of each file
file_fragments ==
  [f \in FileNames \cup DuplicateFileNames \cup SyncFileNames \cup ExactFileNames
        \cup ValidationFileNames |->
     [k \in DOMAIN FileRows(f) |-> row_fragments(FileRows(f)[k])]]

\* db.session.flush() after db.session.add(member): the SQLAlchemyError it raises, if
\* any.  uq_member_submission rejects a second member of the name in the submission;
\* the failed flush rolls the session's transaction back, and every later flush of
\* the session raises PendingRollbackError.
flush_error(r, member) ==
  IF r.failed THEN "PendingRollbackError"
  ELSE IF \E m \in r.tx_members :
            m.name = member.name /\ m.submission_id = member.submission_id
  THEN "IntegrityError"
  ELSE NONE

\* one iteration of the row loop up to the handle() calls
process_row(p) ==
  /\ run[p].pc = "rows"
  /\ run[p].row <= Len(FileRows(run[p].filename))
  /\ LET r == run[p]
         row == FileRows(r.filename)[r.row]
         idx == r.row + 1
         biz == row.businessName
         country == row.country1
         row_error ==
           IF ~is_valid(biz) /\ ~is_valid(country)
           THEN "Missing or empty businessName; Missing or empty country1"
           ELSE IF ~is_valid(biz) THEN "Missing or empty businessName"
           ELSE IF ~is_valid(country) THEN "Missing or empty country1"
           ELSE NONE
         biz_sanitized == sanitize_string(biz)
         email_sanitized == sanitize_string(row.contactEmail)
         skip(error, valid) ==
           [r EXCEPT !.row = r.row + 1,
                     !.validation_errors = Append(@, [row |-> idx, error |-> error]),
                     !.valid_row_indices = valid]
         valid == Append(r.valid_row_indices, idx)
         member == [id |-> NextId(MemberIds), name |-> biz_sanitized,
                    country1 |-> sanitize_string(country), submission_id |-> r.sub_id]
         frags == file_fragments[r.filename][r.row]
     IN  run' = [run EXCEPT ![p] =
           IF row_error # NONE THEN skip(row_error, r.valid_row_indices)
           ELSE IF ~validate_business_name(biz_sanitized)
             THEN skip("Business name validation failed", valid)
           ELSE IF ~validate_email(email_sanitized)
             THEN skip("Email validation failed", valid)
           ELSE IF flush_error(r, member) # NONE
             THEN [skip("DB error", valid) EXCEPT !.failed = TRUE, !.tx_members = {},
                                                  !.tx_items = {}, !.tx_reviews = {}]
           ELSE [r EXCEPT !.valid_row_indices = valid,
                          !.tx_members = @ \cup {member},
                          !.member_id = member.id,
                          !.frags = frags,
                          !.cur_kind = NONE,
                          !.processed_items = {},
                          !.pc = IF frags = <<>> THEN "rows" ELSE "items",
                          !.row = IF frags = <<>> THEN r.row + 1 ELSE r.row]]
  /\ UNCHANGED <<submissions, members, items, reviews, thresholds, response>>

\* a suggested match stored with approved=False
suggested_review_decided(mr, name0, ext_id, alts) ==
  [mr EXCEPT !.suggested_name = name0, !.suggested_ext_id = ext_id, !.alternatives = alts,
             !.approved = "False"]

\* MatchReview(...) of a suggested match: approved=None
suggested_review(mr, name0, ext_id, alts) ==
  [mr EXCEPT !.suggested_name = name0, !.suggested_ext_id = ext_id, !.alternatives = alts]

\* an auto-rejected review left undecided, keeping approved=None
rejected_review_undecided(mr, suggested_name, suggested_ext_id) ==
  [mr EXCEPT !.suggested_name = suggested_name, !.suggested_ext_id = suggested_ext_id,
             !.alternatives = <<>>]

\* MatchReview(...) of an auto-rejected item: alts = [], approved=False
rejected_review(mr, suggested_name, suggested_ext_id) ==
  [mr EXCEPT !.suggested_name = suggested_name, !.suggested_ext_id = suggested_ext_id,
             !.alternatives = <<>>, !.approved = "False"]

\* the threshold cascade on best_match (penalized[b], None when b = 0): the row of
\* new_items and the rows of match_reviews it adds, or the KeyError of ext_map[None]
threshold_cascade(ni, mr, penalized, b, final_score, kind, data, th) ==
  LET name0 == penalized[b].name
      branch == classify(final_score, th)
  IN  IF branch = "AutoResolved"
      THEN IF b = 0
           THEN [error |-> "KeyError", branch |-> branch, final_score |-> final_score,
                 item |-> ni, reviews |-> {}]
           ELSE [error |-> NONE, branch |-> branch, final_score |-> final_score,
                 item |-> [ni EXCEPT !.matched_canonical_id = ext_map_get(data, kind, name0),
                                     !.score = final_score, !.resolved = TRUE],
                 reviews |-> {}]
      ELSE IF branch = "SuggestedForReview"
      THEN IF b = 0
           THEN [error |-> "KeyError", branch |-> branch, final_score |-> final_score,
                 item |-> ni, reviews |-> {}]
           ELSE [error |-> NONE, branch |-> branch, final_score |-> final_score,
                 item |-> [ni EXCEPT !.matched_canonical_id = ext_map_get(data, kind, name0),
                                     !.score = final_score, !.resolved = FALSE],
                 reviews |->
                   {suggested_review(mr, name0, ext_map_get(data, kind, name0),
                      first_n(build_alts(penalized, 1, name0, th, data, kind), 3))}]
      ELSE [error |-> NONE, branch |-> branch, final_score |-> final_score,
            item |-> [ni EXCEPT !.ignored = TRUE],
            reviews |->
              {rejected_review(mr, IF b = 0 THEN ni.name ELSE name0,
                               IF b = 0 THEN NONE ELSE ext_map_get(data, kind, name0))}]

\* name0, final_score of the best penalized match and the MatchReview row built from them
fuzzy_match(ni, penalized, b, kind, data, th, review_id) ==
  threshold_cascade(ni,
    [id |-> review_id, new_item_id |-> ni.id, suggested_name |-> ni.name,
     suggested_ext_id |-> NONE, score |-> IF b = 0 THEN 0 ELSE penalized[b].score,
     alternatives |-> <<>>, approved |-> NONE],
    penalized, b, IF b = 0 THEN 0 ELSE penalized[b].score, kind, data, th)

\* the exact match on the lower-cased name, else the fuzzy match over penalized_matches
exact_or_fuzzy(ni, ext_id, penalized, kind, data, th, review_id) ==
  IF ext_id # NONE
  THEN [error |-> NONE, branch |-> "Exact", final_score |-> Pts(100),
        item |-> [ni EXCEPT !.matched_canonical_id = ext_id, !.score = Pts(100),
                            !.resolved = TRUE],
        reviews |-> {}]
  ELSE fuzzy_match(ni, penalized, best_match(penalized), kind, data, th, review_id)

\* the body of the fragment loop from NewItem(...) to db.session.add(ni)
match_item(text_sanitized, kind, data, raw, ratio_score, partial_score, th, item_id, member_id, review_id) ==
  exact_or_fuzzy(
    [id |-> item_id, name |-> text_sanitized, type |-> kind, member_id |-> member_id,
     matched_canonical_id |-> NONE, score |-> NoScore, resolved |-> FALSE, ignored |-> FALSE],
    lower_map_get(data, kind, lower(text_sanitized)),
    penalized_matches(text_sanitized, extract(pool_names(data, kind), raw, 10),
                      ratio_score, partial_score),
    kind, data, th, review_id)

\* scores in hundredths of a point
RawPts == {Pts(s) : s \in RawScores}

AuxPts == {Pts(s) : s \in AuxScores}

\* the locals of the invocation after the fragment at the head of frags
advance(r) ==
  [r EXCEPT !.frags = Tail(r.frags), !.cur_kind = Head(r.frags).kind,
            !.pc = IF Tail(r.frags) = <<>> THEN "rows" ELSE "items",
            !.row = IF Tail(r.frags) = <<>> THEN @ + 1 ELSE @]

\* a cell in which no item counts as seen
processed_none(r) == {}

\* the items already seen in the cell the fragment at the head of frags belongs to
processed_in_cell(r) ==
  IF Head(r.frags).kind = r.cur_kind THEN r.processed_items ELSE {}

\* one iteration of the fragment loop of handle(kind, cell)
handle(p) ==
  /\ run[p].pc = "items"
  /\ \E r \in {run[p]} : \E frag \in {Head(run[p].frags)} :
     \E key \in {lower(Head(run[p].frags).text_sanitized)} :
     \E processed \in {processed_in_cell(run[p])} :
       IF key \in processed
       THEN /\ run' = [run EXCEPT ![p] =
                 advance([r EXCEPT !.processed_items = processed,
                                   !.last = [NoLast EXCEPT !.branch = "Duplicate"]])]
            /\ UNCHANGED response
       ELSE \E raw \in [DOMAIN pool_names(r.data, frag.kind) -> RawPts] :
            \E ratio_score \in AuxPts : \E partial_score \in AuxPts :
            \E out \in {match_item(frag.text_sanitized, frag.kind, r.data, raw, ratio_score,
                                   partial_score, thresholds, NextId(ItemIds),
                                   r.member_id, NextId(ReviewIds))} :
            \E last \in {[branch |-> out.branch, final_score |-> out.final_score,
                          item_id |-> IF out.error = NONE THEN out.item.id ELSE 0]} :
              IF out.error # NONE
              THEN /\ run' = [run EXCEPT ![p] = [IdleRun EXCEPT !.last = last]]
                   /\ response' = Raise(out.error)
              ELSE /\ run' = [run EXCEPT ![p] =
                        advance([r EXCEPT !.processed_items = processed \cup {key},
                                          !.tx_items = @ \cup {out.item},
                                          !.tx_reviews = @ \cup out.reviews,
                                          !.counter = @ + 1,
                                          !.last = last])]
                   /\ UNCHANGED response
  /\ UNCHANGED <<submissions, members, items, reviews, thresholds>>

\* a commit that goes through whatever the state of the session's transaction
commit_unchecked(p) ==
  /\ run[p].pc = "rows"
  /\ run[p].row > Len(FileRows(run[p].filename))
  /\ submissions' = submissions \cup {[id |-> run[p].sub_id, name |-> run[p].filename]}
  /\ members' = members \cup run[p].tx_members
  /\ items' = items \cup run[p].tx_items
  /\ reviews' = reviews \cup run[p].tx_reviews
  /\ run' = [run EXCEPT ![p] = IdleRun]
  /\ response' = Return(run[p].counter, run[p].validation_errors, run[p].valid_row_indices)
  /\ UNCHANGED thresholds

\* the return of _process_rows_generator and the commit on leaving the with block;
\* the commit of a transaction a failed flush rolled back raises
commit(p) ==
  /\ run[p].pc = "rows"
  /\ run[p].row > Len(FileRows(run[p].filename))
  /\ IF run[p].failed
     THEN /\ response' = Raise("PendingRollbackError")
          /\ UNCHANGED <<submissions, members, items, reviews>>
     ELSE /\ submissions' = submissions \cup {[id |-> run[p].sub_id, name |-> run[p].filename]}
          /\ members' = members \cup run[p].tx_members
          /\ items' = items \cup run[p].tx_items
          /\ reviews' = reviews \cup run[p].tx_reviews
          /\ response' =
               Return(run[p].counter, run[p].validation_errors, run[p].valid_row_indices)
  /\ run' = [run EXCEPT ![p] = IdleRun]
  /\ UNCHANGED thresholds

\* a step of worker p, called with one of the given files
ProcessStep(p, filenames) ==
  \/ \E filename \in filenames : process_submission_file(p, filename)
  \/ create_submission(p)
  \/ process_row(p)
  \/ handle(p)
  \/ commit(p)

\* one worker processing the uploads one after the other
NextUploads == ProcessStep(1, FileNames)

SpecUploads == Init /\ [][NextUploads]_vars

\* uploads with a row the database rejects
FaultFileNames == {"a.csv", "c.csv"}

NextFaults == ProcessStep(1, FaultFileNames)

SpecFaults == Init /\ [][NextFaults]_vars

\* the upload of the canonical titles in lower case
NextExact == ProcessStep(1, ExactFileNames)

SpecExact == Init /\ [][NextExact]_vars

NextValidation == ProcessStep(1, ValidationFileNames)

SpecValidation == Init /\ [][NextValidation]_vars

\* values of AUTO_RESOLVE_THRESHOLD and AUTO_REJECT_THRESHOLD the environment may set
ThresholdGrid ==
  { [auto_resolve |-> Pts(a), auto_reject |-> Pts(r)] : a \in {90, 97, 100}, r \in {0, 50, 60} }

\* the state after construction under any of these thresholds
InitThresholds ==
  /\ submissions = {}
  /\ members = {}
  /\ items = {}
  /\ reviews = {}
  /\ run = [p \in Procs |-> IdleRun]
  /\ thresholds \in ThresholdGrid
  /\ response = NoResponse

NextThresholds == ProcessStep(1, SyncFileNames)

SpecThresholds == InitThresholds /\ [][NextThresholds]_vars

\* the file two workers race on
ConcFileNames == {"a.csv"}

NextConc == \E p \in Procs : ProcessStep(p, ConcFileNames)

SpecConc == Init /\ [][NextConc]_vars

-----------------------------------------------------------------------------
(* Review requests (app/routes.py) *)

\* review.new_item
new_item(review) == CHOOSE i \in items : i.id = review.new_item_id

\* the lookup by item id alone, decided reviews included
reviews_for(item_id) == {r \in reviews : r.new_item_id = item_id}

\* MatchReview.query.filter_by(new_item_id=item_id, approved=None)
pending_for(item_id) == {r \in reviews : r.new_item_id = item_id /\ r.approved = NONE}

\* the query without its filter
every_review == reviews

\* MatchReview.query.join(NewItem).filter(approved IS NULL, NewItem.ignored IS FALSE)
pending_reviews ==
  {r \in reviews : r.approved = NONE /\ \E i \in items : i.id = r.new_item_id /\ ~i.ignored}

Replace(rows, old, new) == (rows \ {old}) \cup {new}

\* the flash message of a review request: its status and, for the high-confidence
\* batch, the counts it reports
Answer(status, approved_count, rejected_count) ==
  [kind |-> "answer", status |-> status, approved_count |-> approved_count,
   rejected_count |-> rejected_count]

NotFound == "Review item not found or already handled."

\* only the primary choice kept
primary_choice_only(canonical_choices) ==
  <<[ext_id |-> canonical_choices[1], selected |-> TRUE]>>

\* all_choices of handle_review
all_choices(canonical_choices) ==
  [k \in DOMAIN canonical_choices |-> [ext_id |-> canonical_choices[k], selected |-> TRUE]]

\* the rows a review request writes and the answer it gives
Writes(rs, is, answer) == [reviews |-> rs, items |-> is, response |-> answer]

\* what handle_review commits and answers
handle_review_writes(item_id, canonical_choices, single_choice) ==
  IF pending_for(item_id) = {}
  THEN Writes(reviews, items, Answer(NotFound, 0, 0))
  ELSE LET review == CHOOSE r \in pending_for(item_id) : TRUE
           ni == new_item(review)
           approve(r) == Replace(reviews, review, r)
           save(i) == Replace(items, ni, i)
           ok == Answer("success", 0, 0)
       IN  IF canonical_choices # <<>>
           THEN Writes(approve([review EXCEPT !.approved = "True",
                                  !.alternatives = all_choices(canonical_choices)]),
                       save([ni EXCEPT !.resolved = TRUE,
                                       !.matched_canonical_id = canonical_choices[1]]),
                       ok)
           ELSE IF single_choice = "__new__"
           THEN Writes(approve([review EXCEPT !.approved = "True"]),
                       save([ni EXCEPT !.resolved = FALSE]), ok)
           ELSE IF single_choice # NONE
           THEN Writes(approve([review EXCEPT !.approved = "True"]),
                       save([ni EXCEPT !.resolved = TRUE,
                                       !.matched_canonical_id = single_choice]),
                       ok)
           ELSE Writes(approve([review EXCEPT !.approved = "False"]),
                       save([ni EXCEPT !.ignored = TRUE]), ok)

\* Review requests read and write committed rows only, so they commute with the
\* steps of an open transaction; they are taken between transactions.
between_transactions == \A p \in Procs : run[p].pc = "idle"

\* db.session.commit() and the answer of a review request
CommitReview(out) ==
  /\ reviews' = out.reviews
  /\ items' = out.items
  /\ response' = out.response
  /\ UNCHANGED <<submissions, members, run, thresholds>>

handle_review(item_id, canonical_choices, single_choice) ==
  /\ between_transactions
  /\ CommitReview(handle_review_writes(item_id, canonical_choices, single_choice))

ignore_review_item_writes(item_id) ==
  IF pending_for(item_id) = {}
  THEN Writes(reviews, items, Answer(NotFound, 0, 0))
  ELSE LET review == CHOOSE r \in pending_for(item_id) : TRUE
           ni == new_item(review)
       IN  Writes(Replace(reviews, review, [review EXCEPT !.approved = "False"]),
                  Replace(items, ni, [ni EXCEPT !.ignored = TRUE]),
                  Answer("success", 0, 0))

ignore_review_item(item_id) ==
  /\ between_transactions
  /\ CommitReview(ignore_review_item_writes(item_id))

\* approve every pending review as a new item
batch_save_decisions_writes ==
  LET selected == pending_reviews
      touched == {r.new_item_id : r \in selected}
  IN  Writes({IF r \in selected THEN [r EXCEPT !.approved = "True"] ELSE r : r \in reviews},
             {IF i.id \in touched THEN [i EXCEPT !.resolved = FALSE] ELSE i : i \in items},
             Answer("success", 0, 0))

batch_save_decisions ==
  /\ between_transactions
  /\ CommitReview(batch_save_decisions_writes)

strict_fuzzy_threshold == 90

\* potential_reviews of batch_approve_high_confidence
potential_reviews ==
  {r \in pending_reviews :
     /\ r.score >= Pts(strict_fuzzy_threshold)
     /\ r.score < thresholds.auto_resolve
     /\ r.suggested_ext_id # NONE}

\* the band without the semantic validation
unvalidated_reviews == potential_reviews

approved_reviews ==
  {r \in potential_reviews :
     is_semantically_valid_match(new_item(r).name, r.suggested_name, new_item(r).type)}

batch_approve_high_confidence_writes ==
  LET rejected_reviews == potential_reviews \ approved_reviews
      suggested(i) == (CHOOSE r \in approved_reviews : r.new_item_id = i.id).suggested_ext_id
  IN  Writes({IF r \in approved_reviews THEN [r EXCEPT !.approved = "True"] ELSE r :
                r \in reviews},
             {IF \E r \in approved_reviews : r.new_item_id = i.id
              THEN [i EXCEPT !.resolved = TRUE, !.matched_canonical_id = suggested(i)]
              ELSE i : i \in items},
             Answer("success", Cardinality(approved_reviews),
                    Cardinality(rejected_reviews)))

batch_approve_high_confidence ==
  /\ between_transactions
  /\ CommitReview(batch_approve_high_confidence_writes)

batch_ignore_all_writes ==
  LET pending == pending_reviews
      touched == {r.new_item_id : r \in pending}
  IN  Writes({IF r \in pending THEN [r EXCEPT !.approved = "False"] ELSE r : r \in reviews},
             {IF i.id \in touched THEN [i EXCEPT !.ignored = TRUE] ELSE i : i \in items},
             Answer("warning", 0, 0))

batch_ignore_all ==
  /\ between_transactions
  /\ CommitReview(batch_ignore_all_writes)

-----------------------------------------------------------------------------
(* Requests a reviewer may send *)

\* longest canonical_choices list posted
MaxChoices == 2

\* canonical ids offered by the review form
ChoiceIds == {"P2", "I1"}

ChoiceLists == UNION {[1..n -> ChoiceIds] : n \in 0..MaxChoices}

\* the 'choice' field: absent, '__new__', or a canonical id
SingleChoices == {NONE, "__new__"} \cup ChoiceIds

\* the forms posted: checked canonical_choices, a 'choice', or the checkboxes
\* together with the 'create as new' choice
ReviewForms ==
  {f \in ChoiceLists \X SingleChoices : f[1] = <<>> \/ f[2] \in {NONE, "__new__"}}

\* item ids posted: those the review list shows, and one without a review
ItemIdInputs == {r.new_item_id : r \in reviews} \cup {0}

ReviewStep ==
  \/ \E item_id \in ItemIdInputs : \E f \in ReviewForms : handle_review(item_id, f[1], f[2])
  \/ \E item_id \in ItemIdInputs : ignore_review_item(item_id)
  \/ batch_save_decisions
  \/ batch_approve_high_confidence
  \/ batch_ignore_all

\* the upload whose records the reviewer works on
ReviewedFileNames == {"a.csv"}

\* One worker processing the upload, and the reviewer.
Next == ProcessStep(1, ReviewedFileNames) \/ ReviewStep

Spec == Init /\ [][Next]_vars

-----------------------------------------------------------------------------
(* Synchronization (app/routes.py, push_to_dgraph) *)

\* What Dgraph answers while one business is pushed: the country lookup (or the
\* creation of a missing country), the member existence query, the addProduct /
\* addIngredients mutation and the addMember / updateMember mutation.  A request
\* is answered, answered with errors ("rejected"), or raises ("exception").
MemberEnvs ==
  {e \in [country : {"found", "error"}, exists : {"yes", "no", "exception"},
          create : {"ok", "rejected"}, answer : {"ok", "rejected", "exception"}] :
     /\ (e.country = "error" \/ e.exists = "exception")
          => (e.create = "ok" /\ e.answer = "ok")
     /\ e.country = "error" => e.exists = "no"
     /\ e.create = "rejected" => e.answer = "ok"}

\* valid_countries_schema, the titles of listallcountries.json
ValidCountries == {<<"C","A">>, <<"U","S">>}

\* the id of a title Dgraph already holds
DgraphId == "D0"

Range(s) == {s[k] : k \in DOMAIN s}

RECURSIVE by_id(_)
\* the rows of a query in the order of their ids
by_id(S) ==
  IF S = {} THEN <<>>
  ELSE LET x == CHOOSE x \in S : \A y \in S : x.id <= y.id
       IN  <<x>> \o by_id(S \ {x})

\* ni.review
has_review(ni) == \E r \in reviews : r.new_item_id = ni.id

review_of(ni) == CHOOSE r \in reviews : r.new_item_id = ni.id

RECURSIVE selected_canonicals(_)
\* the ext_id of every alternative flagged selected
selected_canonicals(alternatives) ==
  IF alternatives = <<>> THEN <<>>
  ELSE IF "selected" \in DOMAIN Head(alternatives) /\ Head(alternatives).selected
  THEN <<Head(alternatives).ext_id>> \o selected_canonicals(Tail(alternatives))
  ELSE selected_canonicals(Tail(alternatives))

\* if canonical_id and canonical_id not in ids: ids.append(canonical_id)
append_new(ids, canonical_id) ==
  IF canonical_id = NONE \/ canonical_id \in Range(ids) THEN ids ELSE Append(ids, canonical_id)

RECURSIVE append_all(_, _)
append_all(ids, more) ==
  IF more = <<>> THEN ids ELSE append_all(append_new(ids, Head(more)), Tail(more))

\* the ids a resolved item contributes: the selected alternatives of its review when
\* the review has alternatives, else its matched_canonical_id
resolved_ids(ni) ==
  IF has_review(ni) /\ review_of(ni).alternatives # <<>>
  THEN selected_canonicals(review_of(ni).alternatives)
  ELSE <<ni.matched_canonical_id>>

\* all_products / all_ingredients of a member
member_items(m, kind) ==
  {ni \in items : ni.member_id = m.id /\ ni.type = kind /\ ~ni.ignored}

resolved_items(m, kind) ==
  {ni \in member_items(m, kind) : ni.resolved /\ ni.matched_canonical_id # NONE}

unresolved_items(m, kind) == {ni \in member_items(m, kind) : ~ni.resolved}

RECURSIVE add_resolved(_, _)
\* the loop over resolved_products / resolved_ingredients
add_resolved(ids, nis) ==
  IF nis = <<>> THEN ids
  ELSE add_resolved(append_all(ids, resolved_ids(Head(nis))), Tail(nis))

RECURSIVE link_known(_, _, _, _)
\* the loop over unresolved items: one whose name Dgraph holds is linked to it
link_known(ids, nis, known, dedupe) ==
  IF nis = <<>> THEN ids
  ELSE link_known(IF Head(nis).name \notin known THEN ids
                  ELSE IF dedupe THEN append_new(ids, DgraphId)
                  ELSE Append(ids, DgraphId),
                  Tail(nis), known, dedupe)

RECURSIVE names_to_create(_, _)
\* new_product_names / new_ingredient_names
names_to_create(nis, known) ==
  IF nis = <<>> THEN <<>>
  ELSE (IF Head(nis).name \in known THEN <<>> ELSE <<Head(nis).name>>)
       \o names_to_create(Tail(nis), known)

\* new_product_ids / new_ingredient_ids: the ids the creating mutation returns
created_ids(names, e, kind) ==
  IF e.create = "ok" THEN [k \in 1..Len(names) |-> kind \o ToString(k)] ELSE <<>>

\* all_product_ids / all_ingredient_ids of the update of an existing member (one
\* without products or ingredients in Dgraph so far)
update_ids(m, kind, e, known) ==
  link_known(add_resolved(<<>>, by_id(resolved_items(m, kind))),
             by_id(unresolved_items(m, kind)), known, TRUE)
    \o created_ids(names_to_create(by_id(unresolved_items(m, kind)), known), e, kind)

\* all_product_ids / all_ingredient_ids of the creation of a new member
create_ids(m, kind, e, known) ==
  add_resolved(link_known(<<>>, by_id(unresolved_items(m, kind)), known, FALSE),
               by_id(resolved_items(m, kind)))
    \o created_ids(names_to_create(by_id(unresolved_items(m, kind)), known), e, kind)

\* a business skipped before any mutation
Skipped(type) ==
  [error |-> type, reported |-> "error", sent |-> FALSE, product_ids |-> <<>>,
   ingredient_ids |-> <<>>, new_product_names |-> <<>>, new_ingredient_names |-> <<>>]

\* the branch 'if node_list': updateMember is posted and its answer is not read
update_member(m, e, known, all_product_ids, all_ingredient_ids) ==
  [error |-> IF all_product_ids \o all_ingredient_ids # <<>> /\ e.answer = "exception"
             THEN "application_error" ELSE NONE,
   reported |-> IF all_product_ids \o all_ingredient_ids = <<>> THEN "none"
                ELSE IF e.answer = "exception" THEN "error" ELSE "member",
   sent |-> all_product_ids \o all_ingredient_ids # <<>>,
   product_ids |-> all_product_ids, ingredient_ids |-> all_ingredient_ids,
   new_product_names |-> names_to_create(by_id(unresolved_items(m, "product")), known),
   new_ingredient_names |-> names_to_create(by_id(unresolved_items(m, "ingredient")), known)]

\* the brand-new company: addMember and the reading of its answer
add_member(m, e, known, all_product_ids, all_ingredient_ids) ==
  [error |-> IF e.answer = "ok" THEN NONE
             ELSE IF e.answer = "rejected" THEN "dgraph_error" ELSE "application_error",
   reported |-> IF e.answer = "ok" THEN "member" ELSE "error",
   sent |-> TRUE,
   product_ids |-> all_product_ids, ingredient_ids |-> all_ingredient_ids,
   new_product_names |-> names_to_create(by_id(unresolved_items(m, "product")), known),
   new_ingredient_names |-> names_to_create(by_id(unresolved_items(m, "ingredient")), known)]

\* one iteration of 'for m in members'
push_member(m, e, known) ==
  IF m.country1 = <<>> \/ m.country1 \notin ValidCountries THEN Skipped("validation_error")
  ELSE IF e.country = "error" THEN Skipped("dgraph_error")
  ELSE IF e.exists = "exception" THEN Skipped("application_error")
  ELSE IF e.exists = "yes"
  THEN update_member(m, e, known, update_ids(m, "product", e, known),
                     update_ids(m, "ingredient", e, known))
  ELSE add_member(m, e, known, create_ids(m, "product", e, known),
                  create_ids(m, "ingredient", e, known))

\* what one business adds to results
merge_results(m, e, outcome, rest) ==
  [members |-> (IF outcome.reported = "member" THEN <<m.name>> ELSE <<>>) \o rest.members,
   products |-> (IF e.create = "ok" THEN outcome.new_product_names ELSE <<>>)
                  \o rest.products,
   ingredients |-> (IF e.create = "ok" THEN outcome.new_ingredient_names ELSE <<>>)
                     \o rest.ingredients,
   errors |-> (IF outcome.error # NONE THEN <<[business |-> m.name, type |-> outcome.error]>>
               ELSE <<>>) \o rest.errors]

RECURSIVE push_all(_, _, _)
\* results of the loop over the members of the submission
push_all(ms, env, known) ==
  IF ms = <<>>
  THEN [members |-> <<>>, products |-> <<>>, ingredients |-> <<>>, errors |-> <<>>]
  ELSE merge_results(Head(ms), env[Head(ms).id],
                     push_member(Head(ms), env[Head(ms).id], known),
                     push_all(Tail(ms), env, known))

\* MemberSubmission.query.order_by(MemberSubmission.id.desc()).first()
latest_submission == CHOOSE s \in submissions : \A t \in submissions : t.id <= s.id

\* Member.query.filter_by(submission_id=submission.id).all()
push_members == by_id({m \in members : m.submission_id = latest_submission.id})

\* the titles Dgraph holds already: none, or the name of every item
KnownTitles == {{}, {ni.name : ni \in items}}

\* the answers drawn for a push: the country is found and the existence query answered
PushEnvs ==
  {e \in MemberEnvs : e.country = "found" /\ e.exists # "exception" /\ e.create = "ok"}

\* the redirect of a push that does not start
Redirect(status) == [kind |-> "redirect", status |-> status]

\* render_template('push_summary.html', ...)
PushSummary(results) ==
  [kind |-> "push", members |-> results.members, products |-> results.products,
   ingredients |-> results.ingredients, errors |-> results.errors]

\* POST /reviews/push
push_to_dgraph ==
  /\ between_transactions
  /\ IF submissions = {}
     THEN response' = Redirect("warning")
     ELSE \E connected \in BOOLEAN :
            IF ~connected
            THEN response' = Redirect("error")
            ELSE \E env \in [{m.id : m \in Range(push_members)} -> PushEnvs] :
                 \E known \in KnownTitles :
                   response' = PushSummary(push_all(push_members, env, known))
  /\ UNCHANGED <<submissions, members, items, reviews, run, thresholds>>

\* the forms the reviewer posts before a synchronization
SyncForms == { << <<>>, "P2" >>, << <<>>, "__new__" >> }

\* The upload of d.csv, its review and its synchronization.
NextSync ==
  \/ ProcessStep(1, SyncFileNames)
  \/ \E item_id \in ItemIdInputs : \E f \in SyncForms : handle_review(item_id, f[1], f[2])
  \/ batch_approve_high_confidence
  \/ push_to_dgraph

SpecSync == Init /\ [][NextSync]_vars

-----------------------------------------------------------------------------
(* Clearing the database (app/routes.py, cancel_review and upload_file) *)

\* the bulk delete of the submissions alone
clear_submissions ==
  /\ submissions' = {}
  /\ UNCHANGED <<reviews, items, members>>

\* MatchReview.query.delete(); NewItem.query.delete(); Member.query.delete();
\* MemberSubmission.query.delete(); db.session.commit(): the rows the bulk deletes
\* see are the committed ones, the rows of a transaction in progress are not
clear_tables ==
  /\ reviews' = {}
  /\ items' = {}
  /\ members' = {}
  /\ submissions' = {}

\* redirect(url_for('main.validate_headers'))
ValidateHeaders == [kind |-> "redirect", to |-> "validate_headers"]

\* the uploads processed while the database is cleared
ClearFileNames == {"b.csv", "d.csv"}

\* the ids a run in progress holds stay within the number of uploads: the cap that
\* keeps the id sequences finite when the tables are cleared during a run
ids_capped == \A p \in Procs : run[p].sub_id <= Cardinality(ClearFileNames)

\* POST /reviews/cancel
cancel_review ==
  /\ ids_capped
  /\ clear_tables
  /\ response' = Redirect("info")
  /\ UNCHANGED <<run, thresholds>>

\* POST /upload; file_ok: a file was sent and allowed_file(file.filename)
upload_file(file_ok, clear_previous) ==
  /\ IF file_ok /\ clear_previous
     THEN ids_capped /\ clear_tables
     ELSE UNCHANGED <<submissions, members, items, reviews>>
  /\ response' = IF file_ok THEN ValidateHeaders ELSE Redirect("error")
  /\ UNCHANGED <<run, thresholds>>

\* One worker processing the uploads, the reviewer, and the requests that clear.
NextClear ==
  \/ ProcessStep(1, ClearFileNames)
  \/ \E item_id \in ItemIdInputs : \E f \in SyncForms : handle_review(item_id, f[1], f[2])
  \/ batch_ignore_all
  \/ cancel_review
  \/ \E file_ok \in BOOLEAN : \E clear_previous \in BOOLEAN : upload_file(file_ok, clear_previous)

SpecClear == Init /\ [][NextClear]_vars

-----------------------------------------------------------------------------
(* The penalty scorer on its own (app/etl.py, apply_match_penalties and the loop over
   all_matches) *)

\* item names scored
PenaltyQueries ==
  { <<>>,
    <<"t","e","a">>,
    <<"G","r","e","e","n"," ","T","e","a"," ","5","%">>,
    <<"r","a","w"," ","o","r","g","a","n","i","c"," ","g","l","u","t","e","n","-","f","r","e","e"," ","w","h","o","l","e"," ","g","r","a","i","n"," ","o","a","t"," ","b","a","r"," ","(","1","2"," ","p","a","c","k",")"," ","#","1">> }

\* canonical titles scored against
PenaltyCandidates ==
  { <<"T","e","a">>,
    <<"G","r","e","e","n"," ","T","e","a"," ","E","x","t","r","a","c","t">>,
    <<"B","6">>,
    <<"a"," ","b"," ","c"," ","d"," ","e"," ","f"," ","g"," ","h">> }

\* raw scores of rapidfuzz, in hundredths of a point
PenaltyRaw == {0, Pts(30), Pts(95), Pts(100)}

\* the scores of one candidate, the raw best match of the item
Penalized(text_sanitized, match_name, raw_score, ratio_score, partial_score) ==
  [kind |-> "penalized", text_sanitized |-> text_sanitized, match_name |-> match_name,
   raw_score |-> raw_score,
   word_penalty |-> word_count_penalty(text_sanitized, match_name),
   base |-> apply_match_penalties(text_sanitized, match_name, raw_score),
   score |-> penalized_matches(text_sanitized, <<[name |-> match_name, score |-> raw_score]>>,
                               ratio_score, partial_score)[1].score]

\* one iteration of 'for match_name, raw_score, _ in all_matches'
penalize(text_sanitized, match_name, raw_score, ratio_score, partial_score) ==
  /\ response' = Penalized(text_sanitized, match_name, raw_score, ratio_score, partial_score)
  /\ UNCHANGED <<submissions, members, items, reviews, run, thresholds>>

NextPenalties ==
  \E text_sanitized \in PenaltyQueries : \E match_name \in PenaltyCandidates :
  \E raw_score \in PenaltyRaw : \E ratio_score \in AuxPts : \E partial_score \in AuxPts :
    penalize(text_sanitized, match_name, raw_score, ratio_score, partial_score)

SpecPenalties == Init /\ [][NextPenalties]_vars

-----------------------------------------------------------------------------
(* The text normalizer on its own (app/etl.py, normalize_offering_text) *)

\* first words, separators and second words of the item texts normalized
FirstWords == { <<"v","i","t">>, <<"o","m","e","g","a">>, <<"m","o","n","k">>, <<"c","o">>, <<"g","r","e","e","n">> }

Separators == { <<" ">>, <<"!"," ">>, <<"-">>, <<>> }

SecondWords == { <<"c">>, <<"3">>, <<"f","r","u","i","t">> }

NormalizeInputs == {a \o s \o b : a \in FirstWords, s \in Separators, b \in SecondWords}

\* the text, its normal form, and the normal form of the normal form
Normalized(text, once, twice) ==
  [kind |-> "normalized", text |-> text, once |-> once, twice |-> twice]

\* a call of normalize_offering_text, and one on its result
normalize(text) ==
  /\ \E once \in {normalize_offering_text(text)} :
     \E twice \in {normalize_offering_text(once)} :
       response' = Normalized(text, once, twice)
  /\ UNCHANGED <<submissions, members, items, reviews, run, thresholds>>

NextNormalize == \E text \in NormalizeInputs : normalize(text)

SpecNormalize == Init /\ [][NextNormalize]_vars

-----------------------------------------------------------------------------
(* The semantic guard applied to pairs of names (app/routes.py) *)

GuardNames == { <<"V","i","t","a","m","i","n"," ","B","1","2">>,
               <<"A","m","i","n","o"," ","B","-","C","o","m","p","l","e","x">>,
               <<"v","i","t","a","m","i","n"," ","p","r","o","t","e","i","n">>,
               <<"a","m","i","n","o"," ","b","6">>,
               <<"t","e","a">>,
               <<"t","e","a","s">>,
               <<"T","e","a"," ","L","e","a","v","e","s">> }

GuardTypes == {"product", "ingredient"}

Guarded(original_name, suggested_name, item_type, valid) == [kind |-> "guard", original_name |-> original_name, suggested_name |-> suggested_name, item_type |-> item_type, valid |-> valid]

guard(original_name, suggested_name, item_type) ==
  /\ response' = Guarded(original_name, suggested_name, item_type, is_semantically_valid_match(original_name, suggested_name, item_type))
  /\ UNCHANGED <<submissions, members, items, reviews, run, thresholds>>

NextGuard == \E original_name \in GuardNames, suggested_name \in GuardNames, item_type \in GuardTypes : guard(original_name, suggested_name, item_type)

SpecGuard == Init /\ [][NextGuard]_vars

-----------------------------------------------------------------------------
(* Requests to Dgraph with retry (app/routes.py, app/error_utils.py) *)

\* ErrorCategory: what _categorize_error makes of the message of a failure
ErrorCategory == {"network", "validation", "dgraph_daily_limit", "dgraph_schema", "dgraph_auth", "dgraph_query", "dgraph_mutation", "file_processing", "database", "unknown"}

non_retryable_categories == {"validation", "dgraph_schema", "dgraph_auth", "dgraph_daily_limit"}

\* a rule that lets every failure be retried
should_retry_always(category, retry_count, max_retries) == TRUE

\* ErrorHandler._should_retry
should_retry(category, retry_count, max_retries) == retry_count < max_retries /\ category \notin non_retryable_categories

\* base_delays.get(category, 1)
base_delays(category) == IF category \in {"network", "database"} THEN 2 ELSE IF category = "dgraph_mutation" THEN 3 ELSE 1

\* ErrorHandler._calculate_retry_delay, in seconds
calculate_retry_delay(category, retry_count) == base_delays(category) * (2 ^ retry_count)

\* max_retries as callers pass it; 3 is the default
MaxRetries == {0, 1, 2, 3}

\* the default of the parameter base_delay, in seconds
BASE_DELAY == 1

\* what one pass of the loop meets: a response, the daily limit, or a RequestException
AttemptOutcomes == {"ok", "limit"} \cup ErrorCategory

Request(pc, max_retries, attempt, sent, failures, delays) == [kind |-> "request", pc |-> pc, max_retries |-> max_retries, attempt |-> attempt, sent |-> sent, failures |-> failures, delays |-> delays]

\* the call: range(0) raises at once, otherwise the first pass of the loop follows
dgraph_request_with_retry(max_retries) ==
  /\ ~(response.kind = "request" /\ response.pc = "send")
  /\ response' = Request(IF max_retries = 0 THEN "raised" ELSE "send", max_retries, 0, 0, <<>>, <<>>)
  /\ UNCHANGED <<submissions, members, items, reviews, run, thresholds>>

\* one pass of the loop: the usage check, requests.post, and on a failure
\* handle_error, the final raise or time.sleep(delay)
request_attempt(outcome) ==
  /\ response.kind = "request"
  /\ response.pc = "send"
  /\ response' =
       IF outcome = "limit" THEN [response EXCEPT !.pc = "raised"]
       ELSE IF outcome = "ok" THEN [response EXCEPT !.pc = "returned", !.sent = @ + 1]
       ELSE IF ~should_retry(outcome, response.attempt, response.max_retries) \/ response.attempt = response.max_retries - 1
       THEN [response EXCEPT !.pc = "raised", !.sent = @ + 1, !.failures = Append(@, outcome)]
       ELSE [response EXCEPT !.attempt = @ + 1, !.sent = @ + 1, !.failures = Append(@, outcome), !.delays = Append(@, calculate_retry_delay(outcome, response.attempt))]
  /\ UNCHANGED <<submissions, members, items, reviews, run, thresholds>>

NextRetry ==
  \/ \E max_retries \in MaxRetries : dgraph_request_with_retry(max_retries)
  \/ \E outcome \in AttemptOutcomes : request_attempt(outcome)

\* every pass of the loop ends: requests.post carries a timeout
SpecRetry == Init /\ [][NextRetry]_vars /\ WF_vars(NextRetry)

-----------------------------------------------------------------------------
(* Properties *)

\* rows of new_items and match_reviews, those of open transactions included
AllItems == items \cup UNION {run[p].tx_items : p \in Procs}

AllReviews == reviews \cup UNION {run[p].tx_reviews : p \in Procs}

\* the review of id rid / the item of id iid among the rows a request writes
review_in(out, rid) == CHOOSE r \in out.reviews : r.id = rid

item_in(out, iid) == CHOOSE i \in out.items : i.id = iid

\* the requests aimed at one item, and the batch requests, by what they write
RequestsFor(item_id) ==
  {handle_review_writes(item_id, f[1], f[2]) : f \in ReviewForms}
    \cup {ignore_review_item_writes(item_id)}

BatchRequests ==
  {batch_save_decisions_writes, batch_approve_high_confidence_writes,
   batch_ignore_all_writes}

\* C1 (review terminality): in every reachable state, a review whose decision is
\* approved or rejected, and its item, are left as they are by every review
\* request (handle_review with any form, ignore_review_item, the three batch
\* requests); handle_review and ignore_review_item aimed at it answer 'not found or
\* already handled' and write nothing.
C1_ReviewTerminality ==
  \A r \in reviews :
    r.approved # NONE =>
      /\ \A item_id \in ItemIdInputs : \A out \in RequestsFor(item_id) \cup BatchRequests :
           r \in out.reviews /\ new_item(r) \in out.items
      /\ \A out \in RequestsFor(r.new_item_id) :
           out = Writes(reviews, items, Answer(NotFound, 0, 0))

\* every review is decided, one approved and one rejected by the reviewer, and the
\* last request was answered 'not found or already handled'
C1_Witness ==
  /\ response = Answer(NotFound, 0, 0)
  /\ \A r \in reviews : r.approved # NONE
  /\ \E r \in reviews : r.approved = "True"
  /\ \E r \in reviews : r.approved = "False" /\ r.score >= thresholds.auto_reject

\* C2 (decision classification): an item handled by the fuzzy branch with best
\* penalized score s is added to the transaction with resolved and a matched id
\* when s >= auto_resolve_threshold, with resolved=false and ignored=false when
\* auto_reject_threshold <= s < auto_resolve_threshold, and with ignored=true and
\* resolved=false when s < auto_reject_threshold.
C2_Classification ==
  \A p \in Procs :
    LET l == run[p].last
        s == l.final_score
    IN  l.branch \in {"AutoResolved", "SuggestedForReview", "AutoRejected"} =>
          \E i \in run[p].tx_items :
            /\ i.id = l.item_id
            /\ IF s >= thresholds.auto_resolve
               THEN i.resolved /\ ~i.ignored /\ i.matched_canonical_id # NONE
               ELSE IF s >= thresholds.auto_reject
               THEN ~i.resolved /\ ~i.ignored
               ELSE i.ignored /\ ~i.resolved

\* C3 (review creation): the item just handled has no review when it matched
\* exactly or was auto-resolved, one pending review when it was suggested, one
\* rejected review with no alternatives when it was auto-rejected; no item has two
\* reviews.
C3_ReviewRecordCreation ==
  /\ \A p \in Procs :
       LET l == run[p].last
           rs == {r \in run[p].tx_reviews : r.new_item_id = l.item_id}
       IN  l.item_id # 0 =>
             /\ l.branch \in {"Exact", "AutoResolved"} => rs = {}
             /\ l.branch = "SuggestedForReview" =>
                  Cardinality(rs) = 1 /\ \A r \in rs : r.approved = NONE
             /\ l.branch = "AutoRejected" =>
                  /\ Cardinality(rs) = 1
                  /\ \A r \in rs : r.approved = "False" /\ r.alternatives = <<>>
  /\ \A i \in AllItems : Cardinality({r \in AllReviews : r.new_item_id = i.id}) <= 1
  /\ \A r \in AllReviews : \E i \in AllItems : i.id = r.new_item_id

\* one item of the open transaction was suggested, with alternatives, and the item
\* just handled was auto-rejected, each with its review
C3_Witness ==
  \E p \in Procs :
    /\ run[p].last.branch = "AutoRejected"
    /\ \E r \in run[p].tx_reviews :
         r.new_item_id = run[p].last.item_id /\ r.approved = "False" /\ r.alternatives = <<>>
    /\ \E r \in run[p].tx_reviews : r.approved = NONE /\ r.alternatives # <<>>

\* C4 (approve-as-new): handle_review with choice '__new__' on a pending review
\* leaves the review approved and its item with resolved=false and with no
\* matched_canonical_id.
C4_ApproveAsNew ==
  \A r \in reviews :
    r.approved = NONE =>
      LET out == handle_review_writes(r.new_item_id, <<>>, "__new__")
      IN  /\ review_in(out, r.id).approved = "True"
          /\ ~item_in(out, r.new_item_id).resolved
          /\ item_in(out, r.new_item_id).matched_canonical_id = NONE

\* C5 (approve-multi-match): handle_review with a non-empty list c1..cn on a pending
\* review leaves the review approved, its item resolved with matched_canonical_id
\* c1, and the alternatives equal to the n entries {ext_id: ci, selected: true} in
\* the order given.
C5_ApproveMultiMatch ==
  \A r \in reviews : \A c \in ChoiceLists \ {<<>>} : \A s \in SingleChoices :
    r.approved = NONE =>
      LET out == handle_review_writes(r.new_item_id, c, s)
          r2 == review_in(out, r.id)
          i2 == item_in(out, r.new_item_id)
      IN  /\ r2.approved = "True"
          /\ i2.resolved
          /\ i2.matched_canonical_id = c[1]
          /\ Len(r2.alternatives) = Len(c)
          /\ \A k \in 1..Len(c) :
               /\ DOMAIN r2.alternatives[k] = {"ext_id", "selected"}
               /\ r2.alternatives[k].ext_id = c[k]
               /\ r2.alternatives[k].selected

\* a review approved with two different canonical
\* ids, the first on its item
C5_Witness ==
  \E r \in reviews :
    /\ r.approved = "True"
    /\ Len(r.alternatives) = 2
    /\ \A k \in 1..2 : DOMAIN r.alternatives[k] = {"ext_id", "selected"}
    /\ r.alternatives[1].ext_id # r.alternatives[2].ext_id
    /\ new_item(r).resolved
    /\ new_item(r).matched_canonical_id = r.alternatives[1].ext_id

\* pending review with 90 <= score < auto_resolve_threshold
InBand(r) ==
  /\ r.approved = NONE
  /\ ~new_item(r).ignored
  /\ r.score >= 9000
  /\ r.score < thresholds.auto_resolve

PassesGuard(r) ==
  is_semantically_valid_match(new_item(r).name, r.suggested_name, new_item(r).type)

\* C6 (batch approve-high-confidence): the request approves exactly the pending
\* reviews in the band that pass the semantic guard, setting the item resolved with
\* the suggested id; a review in the band that fails the guard stays pending, its
\* item not ignored, and is counted as a semantic rejection; every other review
\* and item is unchanged.
C6_BatchApproveHighConfidence ==
  LET out == batch_approve_high_confidence_writes
  IN  /\ \A r \in reviews :
           IF InBand(r) /\ PassesGuard(r)
           THEN /\ review_in(out, r.id) = [r EXCEPT !.approved = "True"]
                /\ item_in(out, r.new_item_id) =
                     [new_item(r) EXCEPT !.resolved = TRUE,
                                         !.matched_canonical_id = r.suggested_ext_id]
           ELSE r \in out.reviews /\ new_item(r) \in out.items
      /\ out.response.approved_count =
           Cardinality({r \in reviews : InBand(r) /\ PassesGuard(r)})
      /\ out.response.rejected_count =
           Cardinality({r \in reviews : InBand(r) /\ ~PassesGuard(r)})
      /\ Cardinality(out.reviews) = Cardinality(reviews)
      /\ Cardinality(out.items) = Cardinality(items)

\* the batch approved one review and reported one semantic rejection, which is
\* still pending in the band
C6_Witness ==
  /\ response = Answer("success", 1, 1)
  /\ \E r \in reviews : InBand(r) /\ ~PassesGuard(r)
  /\ \E r \in reviews :
       /\ r.approved = "True" /\ r.score >= 9000
       /\ new_item(r).resolved
       /\ new_item(r).matched_canonical_id = r.suggested_ext_id

\* pending review of an item that is not ignored
Pending(r) == r.approved = NONE /\ ~new_item(r).ignored

\* C7 (batch operations over the pending set): batch_save_decisions approves every
\* pending review of a non-ignored item with its item unresolved, batch_ignore_all
\* rejects every one with its item ignored; afterwards no review is pending, and
\* the reviews decided before, and their items, are unchanged.
C7_BatchOverPending ==
  /\ LET out == batch_save_decisions_writes
     IN  /\ \A r \in reviews :
              IF Pending(r)
              THEN /\ review_in(out, r.id).approved = "True"
                   /\ ~item_in(out, r.new_item_id).resolved
                   /\ ~item_in(out, r.new_item_id).ignored
              ELSE r \in out.reviews /\ new_item(r) \in out.items
         /\ \A r \in out.reviews : r.approved # NONE
  /\ LET out == batch_ignore_all_writes
     IN  /\ \A r \in reviews :
              IF Pending(r)
              THEN /\ review_in(out, r.id).approved = "False"
                   /\ item_in(out, r.new_item_id).ignored
              ELSE r \in out.reviews /\ new_item(r) \in out.items
         /\ \A r \in out.reviews : r.approved # NONE

\* batch_ignore_all has rejected a suggested review while a review approved before
\* it is still there
C7_Witness ==
  /\ response = Answer("warning", 0, 0)
  /\ \E r \in reviews : r.approved = "True"
  /\ \E r \in reviews :
       r.approved = "False" /\ r.score >= thresholds.auto_reject /\ new_item(r).ignored

\* C8 (item state meaning), as claimed: an item with resolved=false and
\* ignored=false has a review whose decision is pending.
C8_UnresolvedHasPendingReview ==
  \A i \in AllItems :
    (~i.resolved /\ ~i.ignored) =>
      \E r \in AllReviews : r.new_item_id = i.id /\ r.approved = NONE

\* C8, amended: an item with resolved=false and ignored=false has a review whose
\* decision is pending or approved (approved as a new entry).
C8_UnresolvedHasOpenOrNewReview ==
  \A i \in AllItems :
    (~i.resolved /\ ~i.ignored) =>
      \E r \in AllReviews : r.new_item_id = i.id /\ r.approved \in {NONE, "True"}

\* an item approved as new: neither resolved nor ignored, its review approved
C8_Witness ==
  \E i \in items :
    /\ ~i.resolved /\ ~i.ignored
    /\ \E r \in reviews : r.new_item_id = i.id /\ r.approved = "True"

\* C9 (duplicate submission): process_submission_file called for a filename that
\* has a submission returns (0, [], []) and changes no row; there is never more
\* than one submission of a filename.
C9_DuplicateNoOp ==
  /\ [](\A f \in FileNames : Cardinality({s \in submissions : s.name = f}) <= 1)
  /\ [][ \A f \in FileNames :
           ((\E s \in submissions : s.name = f)
              /\ \E p \in Procs : process_submission_file(p, f)) =>
             /\ response' = Return(0, <<>>, <<>>)
             /\ UNCHANGED <<submissions, members, items, reviews>>
       ]_vars

\* both files are in, and the last call was answered (0, [], [])
C9_Witness ==
  /\ Cardinality(submissions) = 2
  /\ response = Return(0, <<>>, <<>>)

\* C10 (concurrent processing of a file): the idempotency check and the creation
\* of the submission are one atomic step: a worker past the check of a filename
\* is alone with that filename, no submission of it is committed, at most one
\* worker is processing its rows, and its members are created once.
C10_AtomicCheckAndCreate ==
  /\ \A p \in Procs :
       run[p].pc = "insert" =>
         /\ ~ \E s \in submissions : s.name = run[p].filename
         /\ ~ \E q \in Procs \ {p} :
                run[q].pc # "idle" /\ run[q].filename = run[p].filename
  /\ \A p \in Procs : \A q \in Procs \ {p} :
       ~ (run[p].pc \in {"rows", "items"} /\ run[q].pc \in {"rows", "items"}
          /\ run[p].filename = run[q].filename)
  /\ \A f \in FileNames : Cardinality({s \in submissions : s.name = f}) <= 1
  /\ \A m1 \in members : \A m2 \in members :
       (m1.name = m2.name /\ m1.id # m2.id) =>
         \A s1 \in submissions : \A s2 \in submissions :
           (s1.id = m1.submission_id /\ s2.id = m2.submission_id) => s1.name # s2.name

C12_DegradedModeNeedsReview ==
  \A p \in Procs :
    (run[p].pc \in {"rows", "items"} /\ run[p].data = NoData) =>
      \A i \in run[p].tx_items :
        /\ ~i.resolved
        /\ ~i.ignored
        /\ \E r \in run[p].tx_reviews : r.new_item_id = i.id /\ r.approved = NONE

\* the push of a business failed: a lookup failed, or a mutation sent for it was
\* answered with errors or raised
PushFailed(e, outcome) ==
  e.country = "error" \/ e.exists = "exception" \/ (outcome.sent /\ e.answer # "ok")

\* C13: whatever Dgraph answers, a business of the submission whose push fails is
\* reported in the error list and not among the pushed members, and the error list
\* of the run holds an entry for every such business.
C13_SyncErrorsCollected ==
  submissions # {} =>
    /\ \A k \in DOMAIN push_members : \A e \in MemberEnvs : \A known \in KnownTitles :
         PushFailed(e, push_member(push_members[k], e, known)) =>
           /\ push_member(push_members[k], e, known).error # NONE
           /\ push_member(push_members[k], e, known).reported = "error"
    /\ \A env \in [{m.id : m \in Range(push_members)} -> MemberEnvs] :
         \A k \in DOMAIN push_members :
           PushFailed(env[push_members[k].id], push_member(push_members[k], env[push_members[k].id], {})) =>
             \E j \in DOMAIN push_all(push_members, env, {}).errors :
               push_all(push_members, env, {}).errors[j].business = push_members[k].name

\* C14: whatever Dgraph answers, an item whose review still awaits a decision is
\* neither created as a new entity nor linked to an existing one by the push of
\* its business.
C14_OnlyTerminalSynchronized ==
  submissions # {} =>
    \A k \in DOMAIN push_members : \A e \in MemberEnvs : \A known \in KnownTitles :
      \A ni \in items :
        (/\ ni.member_id = push_members[k].id
         /\ has_review(ni)
         /\ review_of(ni).approved = NONE) =>
          /\ ni.name \notin Range(push_member(push_members[k], e, known).new_product_names)
          /\ ni.name \notin Range(push_member(push_members[k], e, known).new_ingredient_names)
          /\ ~(ni.name \in known /\ push_member(push_members[k], e, known).sent)

\* the list of canonical ids to link of the item's kind
KindIds(outcome, kind) ==
  IF kind = "product" THEN outcome.product_ids ELSE outcome.ingredient_ids

\* C15: whatever Dgraph answers, when the mutation of a business is sent, the ids to
\* link hold the matched_canonical_id of each of its resolved, non-ignored product
\* and ingredient items, and every id selected on the item's review.
C15_SyncLinksResolved ==
  submissions # {} =>
    \A k \in DOMAIN push_members : \A e \in MemberEnvs : \A known \in KnownTitles :
      push_member(push_members[k], e, known).sent =>
        \A ni \in items :
          (/\ ni.member_id = push_members[k].id
           /\ ni.type \in {"product", "ingredient"}
           /\ ~ni.ignored /\ ni.resolved /\ ni.matched_canonical_id # NONE) =>
            /\ ni.matched_canonical_id
                 \in Range(KindIds(push_member(push_members[k], e, known), ni.type))
            /\ has_review(ni) =>
                 \A c \in Range(selected_canonicals(review_of(ni).alternatives)) :
                   c \in Range(KindIds(push_member(push_members[k], e, known), ni.type))

\* every review's item, every item's member and every member's submission is stored
NoOrphans ==
  /\ \A r \in reviews : \E i \in items : i.id = r.new_item_id
  /\ \A i \in items : \E m \in members : m.id = i.member_id
  /\ \A m \in members : \E s \in submissions : s.id = m.submission_id

\* C16: a cancel-review, and an accepted upload with clear-previous, leaves no
\* submission, member, item or review; and in every state every review's item,
\* every item's member and every member's submission exists.
C16_CascadeDelete ==
  /\ [][(cancel_review \/ upload_file(TRUE, TRUE))
          => (submissions' = {} /\ members' = {} /\ items' = {} /\ reviews' = {})]_vars
  /\ []NoOrphans

\* the cancel deleted the first submission while the second upload is processed
C16_Witness ==
  /\ response = Redirect("info")
  /\ submissions = {} /\ members = {} /\ items = {} /\ reviews = {}
  /\ run[1].pc = "items" /\ run[1].sub_id = 2

\* the name stored for an item whose text is the title in lower case
StoredName(title) == sanitize_string(normalize_offering_text(strip(lower(title))))

\* C17: while the upload of the lower-cased canonical titles is processed, every
\* item stored took the exact-match path: it is resolved with score 100 and the id
\* of its title, the fuzzy cascade was not run for it and it has no review.
C17_ExactMatchDeterminism ==
  \A p \in Procs :
    (run[p].filename \in ExactFileNames /\ run[p].pc \in {"rows", "items"}) =>
      /\ run[p].last.branch \in {NONE, "Exact"}
      /\ \A i \in run[p].tx_items :
           /\ i.resolved /\ i.score = Pts(100)
           /\ \E k \in DOMAIN run[p].data[i.type] :
                /\ i.name = StoredName(run[p].data[i.type][k].title)
                /\ i.matched_canonical_id = run[p].data[i.type][k].id
           /\ ~ \E r \in run[p].tx_reviews : r.new_item_id = i.id

\* C18 as stated: for the score of the item just processed, no higher
\* auto_resolve_threshold turns an auto-resolved case into a suggestion for review,
\* and no lower auto_reject_threshold turns an auto-rejected case into one.
C18_ThresholdMonotonicity ==
  \A p \in Procs : \A th \in ThresholdGrid :
    /\ (/\ run[p].last.branch = "AutoResolved"
        /\ th.auto_resolve >= thresholds.auto_resolve
        /\ th.auto_reject = thresholds.auto_reject)
         => classify(run[p].last.final_score, th) # "SuggestedForReview"
    /\ (/\ run[p].last.branch = "AutoRejected"
        /\ th.auto_reject <= thresholds.auto_reject
        /\ th.auto_resolve = thresholds.auto_resolve)
         => classify(run[p].last.final_score, th) # "SuggestedForReview"

\* C18 amended: for the score of the item just processed, no lower
\* auto_resolve_threshold turns an auto-resolved case into a suggestion for review,
\* and no higher auto_reject_threshold turns an auto-rejected case into one.
C18_ThresholdMonotonicityAmended ==
  \A p \in Procs : \A th \in ThresholdGrid :
    /\ (/\ run[p].last.branch = "AutoResolved"
        /\ th.auto_resolve <= thresholds.auto_resolve
        /\ th.auto_reject = thresholds.auto_reject)
         => classify(run[p].last.final_score, th) = "AutoResolved"
    /\ (/\ run[p].last.branch = "AutoRejected"
        /\ th.auto_reject >= thresholds.auto_reject
        /\ th.auto_resolve = thresholds.auto_resolve)
         => classify(run[p].last.final_score, th) = "AutoRejected"

\* an item was auto-resolved by the cascade under a threshold that can be lowered
C18_Witness ==
  /\ run[1].last.branch = "AutoResolved"
  /\ run[1].last.final_score < Pts(100)
  /\ \E th \in ThresholdGrid : th.auto_resolve < thresholds.auto_resolve

\* C19: the score apply_match_penalties returns and the score kept in
\* penalized_matches are between 0 and 100 points, and the word-count penalty is
\* at most 25 points.
C19_PenaltyBoundedness ==
  response.kind = "penalized" =>
    /\ 0 <= response.base /\ response.base <= Pts(100)
    /\ 0 <= response.score /\ response.score <= Pts(100)
    /\ response.word_penalty <= Pts(25)

\* names three or more words apart: the word-count penalty is capped and the sum of
\* the penalties exceeds the raw score
C19_Witness ==
  /\ response.kind = "penalized"
  /\ response.raw_score > 0
  /\ Abs(Len(split(response.text_sanitized)) - Len(split(response.match_name))) >= 3
  /\ response.word_penalty = Pts(25)
  /\ response.score = 0

\* C20: in every state no review lists its suggested canonical id among its
\* alternatives, and a review written by processing carries at most 3 alternatives.
C20_AlternativesExcludeSuggestion ==
  /\ \A r \in AllReviews : \A k \in DOMAIN r.alternatives :
       r.alternatives[k].ext_id # r.suggested_ext_id
  /\ \A p \in Procs : \A r \in run[p].tx_reviews : Len(r.alternatives) <= 3

\* the fragments of one kind in a row of the file, in the order of the cell
CellOf(f, k, kind) == SelectSeq(file_fragments[f][k], LAMBDA fr : fr.kind = kind)

\* the stored name of the first fragment of the cell with the key
FirstOccurrence(cell, key) ==
  cell[CHOOSE j \in DOMAIN cell :
         /\ lower(cell[j].text_sanitized) = key
         /\ \A h \in DOMAIN cell : lower(cell[h].text_sanitized) = key => j <= h].text_sanitized

\* the items stored for the member of a row and a kind
StoredFor(p, m, kind) == {i \in run[p].tx_items : i.member_id = m.id /\ i.type = kind}

\* C21: while a file is processed, for every finished row and every kind the items
\* stored are one per distinct lower-cased normalized name of the cell, each carries
\* the name of the first fragment with that key, and the count of accepted items
\* is the number of items stored.
C21_Deduplication ==
  \A p \in Procs :
    (run[p].pc \in {"rows", "items"} /\ ~run[p].failed) =>
      /\ run[p].counter = Cardinality(run[p].tx_items)
      /\ \A m \in run[p].tx_members : \A k \in 1..(run[p].row - 1) : \A j \in DOMAIN Kinds :
           sanitize_string(FileRows(run[p].filename)[k].businessName) = m.name =>
             /\ {lower(i.name) : i \in StoredFor(p, m, Kinds[j])}
                  = {lower(CellOf(run[p].filename, k, Kinds[j])[h].text_sanitized) :
                       h \in DOMAIN CellOf(run[p].filename, k, Kinds[j])}
             /\ \A i1 \in StoredFor(p, m, Kinds[j]) : \A i2 \in StoredFor(p, m, Kinds[j]) :
                  lower(i1.name) = lower(i2.name) => i1 = i2
             /\ \A i \in StoredFor(p, m, Kinds[j]) :
                  i.name = FirstOccurrence(CellOf(run[p].filename, k, Kinds[j]), lower(i.name))

\* the row whose products cell names 'Green Teas' twice is finished with one item
\* of that name
C21_Witness ==
  /\ run[1].pc = "rows" /\ run[1].filename = "a.csv" /\ run[1].row = 2
  /\ run[1].counter = 3
  /\ Cardinality({i \in run[1].tx_items : lower(i.name) = <<"g","r","e","e","n"," ","t","e","a","s">>}) = 1

\* C22: normalizing the result of normalize_offering_text again gives the same text.
C22_NormalizationIdempotent ==
  response.kind = "normalized" => response.twice = response.once

\* C23: the semantic guard answers false whenever the two names hold the two
\* keywords of a listed problematic pair, in either order, or the shorter name
\* is less than half as long as the longer one; its answer is the same for
\* every item type, so it depends only on the two names.
PairVeto(a, b) == \E k \in 1..Len(problematic_patterns) : \E x \in {<<a, b>>, <<b, a>>} : contains(lower(x[1]), problematic_patterns[k][1]) /\ contains(lower(x[2]), problematic_patterns[k][2])

LengthVeto(a, b) == 2 * Min2(Len(a), Len(b)) < Max2(Len(a), Len(b))

C23_SemanticGuardVeto ==
  response.kind = "guard" =>
    /\ (PairVeto(response.original_name, response.suggested_name) \/ LengthVeto(response.original_name, response.suggested_name)) => ~response.valid
    /\ \A t \in GuardTypes : is_semantically_valid_match(response.original_name, response.suggested_name, t) = response.valid

C23_Witness ==
  /\ response.kind = "guard"
  /\ response.original_name = <<"v","i","t","a","m","i","n"," ","p","r","o","t","e","i","n">>
  /\ response.suggested_name = <<"a","m","i","n","o"," ","b","6">>
  /\ PairVeto(response.original_name, response.suggested_name)
  /\ categories_only_match(response.original_name, response.suggested_name, response.item_type)
  /\ ~response.valid

\* C24: the alternatives of a review record written by the row loop for a
\* suggested match are in descending order of penalized score.
C24_AlternativesOrdered ==
  \A p \in Procs : \A r \in run[p].tx_reviews :
    \A j, k \in DOMAIN r.alternatives :
      j < k => r.alternatives[j].score >= r.alternatives[k].score

\* C25: the name kept for an item is the normalization of the sanitized
\* fragment, the sanitizer running before the normalizer.
C25_SanitizeBeforeNormalize ==
  \A p \in Procs : \A k \in DOMAIN run[p].frags :
    run[p].frags[k].text_sanitized
      = normalize_offering_text(sanitize_string(run[p].frags[k].text))

\* the rows of the file the run reads, and the checks of the row loop on one of them
RowsOf(p) == FileRows(run[p].filename)

RowPasses(row) == /\ is_valid(row.businessName) /\ is_valid(row.country1) /\ validate_business_name(sanitize_string(row.businessName)) /\ validate_email(sanitize_string(row.contactEmail))

MemberOfRow(p, row) == {m \in run[p].tx_members : m.name = sanitize_string(row.businessName)}

\* C26: a row that fails validation is recorded in validation_errors with its
\* row number, creates no member and no item, is not among the valid row
\* indices, and the rows after it are still processed.
C26_InvalidRowSkipped ==
  \A p \in Procs : (run[p].pc \in {"rows", "items"} /\ ~run[p].failed) =>
    \A k \in 1..Len(RowsOf(p)) :
      /\ (k < run[p].row /\ ~RowPasses(RowsOf(p)[k])) =>
            /\ \E j \in DOMAIN run[p].validation_errors : run[p].validation_errors[j].row = k + 1
            /\ MemberOfRow(p, RowsOf(p)[k]) = {}
            /\ \A i \in run[p].tx_items : \A m \in run[p].tx_members : i.member_id = m.id => m.name # sanitize_string(RowsOf(p)[k].businessName)
            /\ \A j \in DOMAIN run[p].valid_row_indices : run[p].valid_row_indices[j] # k + 1
      /\ (k < run[p].row /\ RowPasses(RowsOf(p)[k])) => MemberOfRow(p, RowsOf(p)[k]) # {}

\* the categories the claim calls non-transient
NonTransient == {"validation", "dgraph_auth"}

RetryBounded ==
  response.kind = "request" =>
    /\ response.sent <= response.max_retries
    /\ \A k \in DOMAIN response.failures :
         response.sent > k => response.failures[k] \notin NonTransient
    /\ \A k \in DOMAIN response.failures :
         response.failures[k] \in NonTransient => response.sent = k /\ response.pc = "raised"

\* C27: dgraph_request_with_retry sends at most max_retries requests and then
\* returns or raises; a failure classified as validation or auth is never
\* followed by another attempt, so only other failures are retried.
C27_BoundedRetry ==
  /\ []RetryBounded
  /\ (response.kind = "request" /\ response.pc = "send") ~> (response.kind = "request" /\ response.pc \in {"returned", "raised"})

C27_Witness ==
  /\ response.kind = "request"
  /\ response.pc = "raised"
  /\ response.max_retries = 3
  /\ response.sent = 2
  /\ response.failures = <<"network", "dgraph_auth">>

\* C28: the wait before the k-th retry is base_delay * 2^(k-1) seconds with
\* base_delay = 1, whatever the category of the failure.
C28_BackoffSchedule ==
  response.kind = "request" =>
    \A k \in DOMAIN response.delays : response.delays[k] = BASE_DELAY * (2 ^ (k - 1))

\* the product and ingredient nodes the push of a business created
CreatedFor(e, outcome) == IF e.create = "ok" THEN outcome.new_product_names \o outcome.new_ingredient_names ELSE <<>>

\* C29: whatever Dgraph answers, a business that ends in the error list of the
\* push has had no new product or ingredient node created for it.
C29_SyncAtomicPerBusiness ==
  submissions # {} =>
    \A k \in DOMAIN push_members : \A e \in MemberEnvs : \A known \in KnownTitles :
      push_member(push_members[k], e, known).error # NONE =>
        CreatedFor(e, push_member(push_members[k], e, known)) = <<>>

\* C30: an item is ignored exactly when it has a review decided as rejected, and
\* no item is both resolved and ignored.
C30_IgnoredIffRejected ==
  \A ni \in items :
    /\ ni.ignored <=> \E r \in reviews : r.new_item_id = ni.id /\ r.approved = "False"
    /\ ~(ni.resolved /\ ni.ignored)

C30_Witness ==
  /\ \E ni \in items : \E r \in reviews :
       /\ r.new_item_id = ni.id /\ r.approved = "False" /\ ni.ignored
       /\ r.score < thresholds.auto_reject
  /\ \E ni \in items : \E r \in reviews :
       /\ r.new_item_id = ni.id /\ r.approved = "False" /\ ni.ignored
       /\ r.score >= thresholds.auto_reject
  /\ \E ni \in items : ni.resolved /\ ~ni.ignored

====
